---- MODULE Spec2Model ----
(***************************************************************************)
(* A model of skel's configuration core: the dependency resolver           *)
(* (SkeletonConfig::calculate), the two layer loaders                      *)
(* (ProjectConfig::read_from, SkeletonConfig::read_from) and the layer     *)
(* merger (Skeleton::from_config_file).                                    *)
(*                                                                         *)
(* Strings are strings; a path (PathBuf) is the sequence of its segments:   *)
(* <<"d", "a">> is d/a.  PathBuf_from and to_str convert between the two   *)
(* for the strings of the model.  A content key is the string of the       *)
(* entry's source path, relative to the content root.                      *)
(***************************************************************************)
EXTENDS Integers, Sequences, FiniteSets, TLC

VARIABLES
    \* ---- SkeletonConfig::calculate ----
    content,        \* self.content: key -> Content
    pc,             \* position of the resolver run
    keys,           \* the base ordering (sorted keys)
    dependents,     \* reverse edges: key -> sequence of keys depending on it
    dependencies,   \* outstanding dependencies: key -> sequence of keys
    remaining,      \* keys not yet emitted, in base order
    scan,           \* remaining.clone() being iterated by the current pass
    count,          \* emissions of the current pass
    result,         \* emitted Content values
    calls,          \* how many calls of calculate have been started
    first_result,   \* what the first call returned
    passes,         \* the emissions of each completed or running pass
    \* ---- Skeleton::from_config_file ----
    config_file,    \* the path of the per-project configuration file
    project_file,   \* what the filesystem holds at config_file
    skeleton_file,  \* what it holds at <skeleton>/skeleton.kdl
    content_tree,   \* what read_tree returns for <skeleton>/content
    project_config, \* the result of ProjectConfig::read_from
    skeleton_config,\* the result of SkeletonConfig::read_from
    skeleton,       \* the result of Skeleton::from_config_file
    lpc,            \* position of from_config_file
    \* ---- a call of one function on its own ----
    unit,           \* the function called: "task", "content" or "tree"
    input,          \* its arguments
    output          \* what it returned

resolver_vars == <<content, pc, keys, dependents, dependencies, remaining, scan,
                   count, result, calls, first_result, passes>>

loader_vars == <<config_file, project_file, skeleton_file, content_tree,
                 project_config, skeleton_config, skeleton, lpc>>

unit_vars == <<unit, input, output>>

vars == <<resolver_vars, loader_vars, unit_vars>>

----------------------------------------------------------------------------
(* Bounds *)

\* the total number of dependency entries of a content table
MaxDeps == 3

\* the content keys a table draws from; a key outside the table is a
\* dependency on a nonexistent entry
KeyUniverse == { "a", "b", "c", "d/a" }

----------------------------------------------------------------------------
(* Paths and collation *)

\* PathBuf::from(string): the segments between the separators
PathBuf_from(s) ==
    CASE s = ""            -> <<>>
      [] s = "d/a"         -> <<"d", "a">>
      [] s = "d/b"         -> <<"d", "b">>
      [] s = "d/d"         -> <<"d", "d">>
      [] s = "home/dot_bashrc" -> <<"home", "dot_bashrc">>
      [] s = "home/bashrc" -> <<"home", "bashrc">>
      [] s = "proj/.skeleton" -> <<"proj", ".skeleton">>
      [] s = "work/.skeleton" -> <<"work", ".skeleton">>
      [] s = "r/.skeleton" -> <<"r", ".skeleton">>
      [] OTHER             -> <<s>>

\* Path::to_str / to_string_lossy: the segments joined by the separator
to_str(path) ==
    CASE path = <<>>                     -> ""
      [] path = <<"d", "a">>             -> "d/a"
      [] path = <<"d", "b">>             -> "d/b"
      [] path = <<"d", "d">>             -> "d/d"
      [] path = <<"home", "dot_bashrc">> -> "home/dot_bashrc"
      [] path = <<"home", "bashrc">>     -> "home/bashrc"
      [] path = <<"home", ".bashrc">>    -> "home/.bashrc"
      [] path = <<"proj", ".skeleton">>  -> "proj/.skeleton"
      [] path = <<"work", ".skeleton">>  -> "work/.skeleton"
      [] path = <<"r", ".skeleton">>     -> "r/.skeleton"
      [] OTHER                           -> path[1]

\* Path::parent(): the path without its last segment
parent(path) == SubSeq(path, 1, Len(path) - 1)

\* Path::file_name(): the last segment
file_name(path) == path[Len(path)]

\* a.parent().unwrap().to_str().unwrap(): what the comparator collates first
parent_str(path) == to_str(parent(path))

\* feruca's Collator::collate is a total order on strings (equal keys are
\* told apart by their bytes); the rank of each string of the model in it
CollationRank(s) ==
    CASE s = ""      -> 0
      [] s = "a"     -> 1
      [] s = "b"     -> 2
      [] s = "bashrc" -> 3
      [] s = "c"     -> 4
      [] s = "d"     -> 5
      [] s = "d/d"   -> 6
      [] s = "dot_bashrc" -> 7
      [] s = "home"  -> 8
      [] s = "x"     -> 9
      [] OTHER       -> 10

\* collator.collate(a, b): "Less", "Equal" or "Greater"
collate(a, b) ==
    IF CollationRank(a) < CollationRank(b) THEN "Less"
    ELSE IF CollationRank(a) > CollationRank(b) THEN "Greater"
    ELSE "Equal"

\* a comparator that forgets the file name
compare_parent_only(a, b) == collate(parent_str(a), parent_str(b))

\* the closure given to path_keys.sort_by: parent first, then file name
compare(a, b) ==
    IF collate(parent_str(a), parent_str(b)) = "Equal"
    THEN collate(file_name(a), file_name(b))
    ELSE collate(parent_str(a), parent_str(b))

\* one insertion of a stable sort: x goes after every element not greater
RECURSIVE insert_sorted(_, _)
insert_sorted(sorted, x) ==
    IF sorted = <<>> THEN <<x>>
    ELSE IF compare(sorted[Len(sorted)], x) = "Greater"
         THEN Append(insert_sorted(SubSeq(sorted, 1, Len(sorted) - 1), x),
                     sorted[Len(sorted)])
         ELSE Append(sorted, x)

\* slice::sort_by: a stable sort under compare
RECURSIVE sort_by(_)
sort_by(seq) ==
    IF seq = <<>> THEN <<>>
    ELSE insert_sorted(sort_by(SubSeq(seq, 1, Len(seq) - 1)), seq[Len(seq)])

\* keys left in the order the table hands them out
sorted_keys_unsorted(iteration_order) == iteration_order

\* lines 123-142: the keys as paths in the table's iteration order, sorted,
\* and turned back into strings
sorted_keys(iteration_order) ==
    LET path_keys == sort_by([i \in 1..Len(iteration_order) |->
                                 PathBuf_from(iteration_order[i])])
    IN  [i \in 1..Len(path_keys) |-> to_str(path_keys[i])]

\* the orders in which a HashMap may hand out the keys S
Orders(S) ==
    { f \in [1..Cardinality(S) -> S] : \A i, j \in 1..Cardinality(S) : f[i] = f[j] => i = j }

----------------------------------------------------------------------------
(* Content entries *)

\* file_name.starts_with("dot_"), for the file names of the model
starts_with_dot_(name) == name \in {"dot_bashrc"}

\* format!(".{}", file_name.strip_prefix("dot_").unwrap())
dot_name(name) ==
    CASE name = "dot_bashrc" -> ".bashrc"
      [] OTHER -> name

\* Content::from_source(path, None), path a PathBuf
from_source(path) ==
    [ source       |-> path,
      destination  |-> IF starts_with_dot_(file_name(path))
                       THEN Append(parent(path), dot_name(file_name(path)))
                       ELSE Append(parent(path), file_name(path)),
      kind         |-> "File",
      dependencies |-> <<>> ]

\* the tables a directory scan produces: every entry at its default
ScannedTables ==
    { [k \in S |-> from_source(PathBuf_from(k))] : S \in SUBSET KeyUniverse }

----------------------------------------------------------------------------
(* KDL documents, as the parser hands them to the loaders *)

\* KdlValue: a type tag and the text of the value
String(s) == [type |-> "String", text |-> s]
Base10(s) == [type |-> "Base10", text |-> s]
Bool(s)   == [type |-> "Bool", text |-> s]
Null      == [type |-> "Null", text |-> "null"]

\* KdlEntry: an argument (positional) or a property (named)
Arg(v)     == [named |-> FALSE, name |-> "", value |-> v]
Prop(n, v) == [named |-> TRUE, name |-> n, value |-> v]

\* KdlNode without and with a children block
Leaf(n, es)     == [name |-> n, entries |-> es, has_children |-> FALSE, children |-> <<>>]
Block(n, es, c) == [name |-> n, entries |-> es, has_children |-> TRUE, children |-> c]

\* KdlValue::as_string() is Some
is_string(v) == v.type \in {"String", "RawString"}

\* the arguments of a node: its entries that carry no name
RECURSIVE arguments(_)
arguments(es) ==
    IF es = <<>> THEN <<>>
    ELSE IF Head(es).named THEN arguments(Tail(es))
         ELSE <<Head(es)>> \o arguments(Tail(es))

\* KdlNode::get(0) is Some: the node has a first argument
has_arg0(node) == arguments(node.entries) # <<>>

\* KdlNode::get(0).unwrap()
arg0(node) == Head(arguments(node.entries))

\* the nodes of a document that carry the name n, in order
RECURSIVE nodes_named(_, _)
nodes_named(doc, n) ==
    IF doc = <<>> THEN <<>>
    ELSE IF Head(doc).name = n THEN <<Head(doc)>> \o nodes_named(Tail(doc), n)
         ELSE nodes_named(Tail(doc), n)

\* KdlDocument::get(name) is Some
has_node(doc, n) == nodes_named(doc, n) # <<>>

\* KdlDocument::get(name).unwrap(): the first node of that name
get_node(doc, n) == Head(nodes_named(doc, n))

\* Result values; NoResult stands for a call that has not been made
NoResult == [kind |-> "None"]
Ok(v)  == [kind |-> "Ok", value |-> v]
Err(e) == [kind |-> "Err", error |-> e]
Panic  == [kind |-> "Panic"]

\* kdl_helpers::first_string_arg(document, name, default)
first_string_arg(document, name, default) ==
    IF has_node(document, name)
    THEN IF has_arg0(get_node(document, name))
         THEN IF is_string(arg0(get_node(document, name)).value)
              THEN Ok(arg0(get_node(document, name)).value.text)
              ELSE Err("InvalidString")
         ELSE Err("MissingArgument")
    ELSE Ok(default)

\* kdl_helpers::kdl_entry_to_tera_value
kdl_entry_to_tera_value(entry) ==
    CASE entry.value.type \in {"String", "RawString"} ->
            [type |-> "String", text |-> entry.value.text]
      [] entry.value.type \in {"Base2", "Base8", "Base10", "Base16", "Base10Float"} ->
            [type |-> "Number", text |-> entry.value.text]
      [] entry.value.type = "Bool" -> [type |-> "Bool", text |-> entry.value.text]
      [] OTHER -> [type |-> "Null", text |-> "null"]

\* kdl_helpers::kdl_entry_to_string
kdl_entry_to_string(entry) ==
    IF entry.value.type = "Null" THEN "null" ELSE entry.value.text

\* map.insert(k, v) on a map held as a function
insert(map, k, v) == (k :> v) @@ map

\* a loop over the children of the variables node that skips a child without
\* a positional entry
RECURSIVE variables_loop_skipping_valueless(_, _)
variables_loop_skipping_valueless(variables, children) ==
    IF children = <<>> THEN Ok(variables)
    ELSE IF ~has_arg0(Head(children))
         THEN variables_loop_skipping_valueless(variables, Tail(children))
         ELSE variables_loop_skipping_valueless(
                insert(variables, Head(children).name,
                       kdl_entry_to_tera_value(arg0(Head(children)))),
                Tail(children))

\* the loop of variables_from_kdl_document over the children of the
\* variables node
RECURSIVE variables_loop(_, _)
variables_loop(variables, children) ==
    IF children = <<>> THEN Ok(variables)
    ELSE IF ~has_arg0(Head(children)) THEN Err("MissingArgument")
         ELSE variables_loop(
                insert(variables, Head(children).name,
                       kdl_entry_to_tera_value(arg0(Head(children)))),
                Tail(children))

\* kdl_helpers::variables_from_kdl_document
variables_from_kdl_document(doc) ==
    IF ~has_node(doc, "variables") THEN Ok(<<>>)
    ELSE IF ~get_node(doc, "variables").has_children THEN Ok(<<>>)
         ELSE variables_loop(<<>>, get_node(doc, "variables").children)

----------------------------------------------------------------------------
(* Task::from_kdl_document *)

\* TaskStep
Env(env_map)        == [step |-> "Env", vars |-> env_map]
Exec(command, args) == [step |-> "Exec", command |-> command, args |-> args]
InvokeTask(t, args) == [step |-> "Task", command |-> t, args |-> args]

\* lines 30-38: the named entries of an env node, as a map of strings
RECURSIVE env_vars(_, _)
env_vars(env_map, es) ==
    IF es = <<>> THEN env_map
    ELSE IF Head(es).named
         THEN env_vars(insert(env_map, Head(es).name, kdl_entry_to_string(Head(es))),
                       Tail(es))
         ELSE env_vars(env_map, Tail(es))

\* lines 46-61 and 69-84: the loop over the entries of an exec or task node;
\* the first argument met while the command is still empty becomes the
\* command, every other argument is pushed on args
RECURSIVE command_loop(_, _, _)
command_loop(command, args, es) ==
    IF es = <<>> THEN Ok(<<command, args>>)
    ELSE IF Head(es).named THEN command_loop(command, args, Tail(es))
    ELSE IF command = ""
         THEN IF is_string(Head(es).value)
              THEN command_loop(Head(es).value.text, args, Tail(es))
              ELSE Err("MissingArgument")
         ELSE command_loop(command, Append(args, kdl_entry_to_string(Head(es))),
                           Tail(es))

\* a loop over the nodes of a task body that puts each new step first
RECURSIVE steps_loop_prepending(_, _)
steps_loop_prepending(steps, doc) ==
    IF doc = <<>> THEN Ok(steps)
    ELSE IF Head(doc).name = "env"
         THEN steps_loop_prepending(
                <<Env(env_vars(<<>>, Head(doc).entries))>> \o steps, Tail(doc))
    ELSE IF Head(doc).name \in {"exec", "task"}
         THEN LET r == command_loop("", <<>>, Head(doc).entries)
              IN  IF r.kind = "Err" THEN r
                  ELSE steps_loop_prepending(
                         <<IF Head(doc).name = "exec"
                           THEN Exec(r.value[1], r.value[2])
                           ELSE InvokeTask(r.value[1], r.value[2])>> \o steps,
                         Tail(doc))
    ELSE steps_loop_prepending(steps, Tail(doc))

\* lines 25-90: the loop over the nodes of a task body
RECURSIVE steps_loop(_, _)
steps_loop(steps, doc) ==
    IF doc = <<>> THEN Ok(steps)
    ELSE IF Head(doc).name = "env"
         THEN steps_loop(Append(steps, Env(env_vars(<<>>, Head(doc).entries))),
                         Tail(doc))
    ELSE IF Head(doc).name \in {"exec", "task"}
         THEN LET r == command_loop("", <<>>, Head(doc).entries)
              IN  IF r.kind = "Err" THEN r
                  ELSE steps_loop(
                         Append(steps,
                                IF Head(doc).name = "exec"
                                THEN Exec(r.value[1], r.value[2])
                                ELSE InvokeTask(r.value[1], r.value[2])),
                         Tail(doc))
    ELSE steps_loop(steps, Tail(doc))

\* Task::from_kdl_document(doc, name)
Task_from_kdl_document(doc, name) ==
    LET r == steps_loop(<<>>, doc)
    IN  IF r.kind = "Err" THEN r
        ELSE Ok([name |-> name, steps |-> r.value])

\* a loop over the top-level task nodes that skips a task node without a
\* string name
RECURSIVE tasks_loop_skipping_unnamed(_, _)
tasks_loop_skipping_unnamed(tasks, doc) ==
    IF doc = <<>> THEN Ok(tasks)
    ELSE IF Head(doc).name # "task" THEN tasks_loop_skipping_unnamed(tasks, Tail(doc))
    ELSE IF ~has_arg0(Head(doc)) THEN tasks_loop_skipping_unnamed(tasks, Tail(doc))
    ELSE IF ~is_string(arg0(Head(doc)).value)
         THEN tasks_loop_skipping_unnamed(tasks, Tail(doc))
    ELSE IF ~Head(doc).has_children THEN tasks_loop_skipping_unnamed(tasks, Tail(doc))
    ELSE LET name == arg0(Head(doc)).value.text
             task == Task_from_kdl_document(Head(doc).children, name)
         IN  IF task.kind = "Err" THEN task
             ELSE tasks_loop_skipping_unnamed(insert(tasks, name, task.value), Tail(doc))

\* a loop over the task nodes that gives a node without a children block a
\* task of no steps
RECURSIVE tasks_loop_inserting_bodyless(_, _)
tasks_loop_inserting_bodyless(tasks, doc) ==
    IF doc = <<>> THEN Ok(tasks)
    ELSE IF Head(doc).name # "task" THEN tasks_loop_inserting_bodyless(tasks, Tail(doc))
    ELSE IF ~has_arg0(Head(doc)) THEN Err("MissingArgument")
    ELSE IF ~is_string(arg0(Head(doc)).value) THEN Err("InvalidString")
    ELSE LET name == arg0(Head(doc)).value.text
             task == Task_from_kdl_document(Head(doc).children, name)
         IN  IF task.kind = "Err" THEN task
             ELSE tasks_loop_inserting_bodyless(insert(tasks, name, task.value), Tail(doc))

\* the loop over the top-level task nodes of both read_from functions
\* (project.rs lines 36-56, skeleton.rs lines 31-51)
RECURSIVE tasks_loop(_, _)
tasks_loop(tasks, doc) ==
    IF doc = <<>> THEN Ok(tasks)
    ELSE IF Head(doc).name # "task" THEN tasks_loop(tasks, Tail(doc))
    ELSE IF ~has_arg0(Head(doc)) THEN Err("MissingArgument")
    ELSE IF ~is_string(arg0(Head(doc)).value) THEN Err("InvalidString")
    ELSE IF ~Head(doc).has_children THEN tasks_loop(tasks, Tail(doc))
    ELSE LET name == arg0(Head(doc)).value.text
             task == Task_from_kdl_document(Head(doc).children, name)
         IN  IF task.kind = "Err" THEN task
             ELSE tasks_loop(insert(tasks, name, task.value), Tail(doc))

----------------------------------------------------------------------------
(* Configuration files and the two layer loaders *)

\* what fs::read_to_string finds at a configuration path
NotFound       == [kind |-> "NotFound", document |-> <<>>]
IoError        == [kind |-> "IoError", document |-> <<>>]
Unparsable     == [kind |-> "Unparsable", document |-> <<>>]
Document(doc)  == [kind |-> "Document", document |-> doc]

\* a read that treats a missing file like any other read error
read_document_strict(file) ==
    CASE file.kind \in {"NotFound", "IoError"} -> Err("IoError")
      [] file.kind = "Unparsable" -> Err("KdlError")
      [] OTHER -> Ok([document |-> file.document, is_default |-> FALSE])

\* fs_helpers::read_to_string_with_default followed by config_content.parse():
\* the document and the is_default flag, or the error
read_document(file) ==
    CASE file.kind = "NotFound"   -> Ok([document |-> <<>>, is_default |-> TRUE])
      [] file.kind = "IoError"    -> Err("IoError")
      [] file.kind = "Unparsable" -> Err("KdlError")
      [] OTHER -> Ok([document |-> file.document, is_default |-> FALSE])

\* PathBuf::join with a relative segment
join(path, segment) == Append(path, segment)

\* ProjectConfig::read_from(path), the file at path being file
ProjectConfig_read_from(path, file) ==
    LET read == read_document(file)
    IN  IF read.kind = "Err" THEN read
        ELSE
        LET document == read.value.document
            root_str == first_string_arg(document, "root", to_str(parent(path)))
        IN  IF root_str.kind = "Err" THEN root_str
            ELSE
            LET root == PathBuf_from(root_str.value)
                skeleton_str == first_string_arg(document, "skeleton",
                                                 to_str(join(root, ".skeleton")))
            IN  IF skeleton_str.kind = "Err" THEN skeleton_str
                ELSE
                LET variables == variables_from_kdl_document(document)
                IN  IF variables.kind = "Err" THEN variables
                    ELSE
                    LET tasks == tasks_loop(<<>>, document)
                    IN  IF tasks.kind = "Err" THEN tasks
                        ELSE Ok([ root       |-> root,
                                  skeleton   |-> PathBuf_from(skeleton_str.value),
                                  variables  |-> variables.value,
                                  tasks      |-> tasks.value,
                                  is_default |-> read.value.is_default ])

\* skeleton.rs lines 53-60: one default entry per scanned source
RECURSIVE scanned_content(_, _)
scanned_content(table, sources) ==
    IF sources = <<>> THEN table
    ELSE scanned_content(
            insert(table, to_str(Head(sources)), from_source(Head(sources))),
            Tail(sources))

\* a loop over the entries of a depends_on child that also pushes the values
\* of its named arguments
RECURSIVE depends_on_loop_taking_named(_, _)
depends_on_loop_taking_named(content_val, es) ==
    IF es = <<>> THEN Ok(content_val)
    ELSE IF ~is_string(Head(es).value) THEN Panic
    ELSE depends_on_loop_taking_named(
            [content_val EXCEPT !.dependencies = Append(@, Head(es).value.text)],
            Tail(es))

\* skeleton.rs lines 94-100: the arguments of a depends_on child are pushed
\* on the dependencies; as_string().unwrap() panics on any other value
RECURSIVE depends_on_loop(_, _)
depends_on_loop(content_val, es) ==
    IF es = <<>> THEN Ok(content_val)
    ELSE IF Head(es).named THEN depends_on_loop(content_val, Tail(es))
    ELSE IF ~is_string(Head(es).value) THEN Panic
    ELSE depends_on_loop(
            [content_val EXCEPT !.dependencies = Append(@, Head(es).value.text)],
            Tail(es))

\* a loop over the children of a content node in which a destination child
\* starts the entry afresh at its new destination
RECURSIVE children_loop_resetting(_, _, _)
children_loop_resetting(content_val, children, rest) ==
    IF rest = <<>> THEN Ok(content_val)
    ELSE IF Head(rest).name = "destination"
         THEN LET destination == first_string_arg(children, "destination", "default")
              IN  IF destination.kind = "Err" THEN Panic
                  ELSE children_loop_resetting(
                         [content_val EXCEPT
                            !.destination = PathBuf_from(destination.value),
                            !.dependencies = <<>>],
                         children, Tail(rest))
    ELSE IF Head(rest).name = "depends_on"
         THEN LET pushed == depends_on_loop(content_val, Head(rest).entries)
              IN  IF pushed.kind = "Panic" THEN Panic
                  ELSE children_loop_resetting(pushed.value, children, Tail(rest))
    ELSE children_loop_resetting(content_val, children, Tail(rest))

\* skeleton.rs lines 83-104: the children of a content node; children is the
\* whole block (what first_string_arg searches), rest the children still to
\* visit
RECURSIVE children_loop(_, _, _)
children_loop(content_val, children, rest) ==
    IF rest = <<>> THEN Ok(content_val)
    ELSE IF Head(rest).name = "destination"
         THEN LET destination == first_string_arg(children, "destination", "default")
              IN  IF destination.kind = "Err" THEN Panic
                  ELSE children_loop(
                         [content_val EXCEPT
                            !.destination = PathBuf_from(destination.value)],
                         children, Tail(rest))
    ELSE IF Head(rest).name = "depends_on"
         THEN LET pushed == depends_on_loop(content_val, Head(rest).entries)
              IN  IF pushed.kind = "Panic" THEN Panic
                  ELSE children_loop(pushed.value, children, Tail(rest))
    ELSE children_loop(content_val, children, Tail(rest))

\* a loop over the content nodes that skips a node naming an unknown source
RECURSIVE content_loop_skipping_unknown(_, _)
content_loop_skipping_unknown(table, doc) ==
    IF doc = <<>> THEN Ok(table)
    ELSE IF Head(doc).name # "content" THEN content_loop_skipping_unknown(table, Tail(doc))
    ELSE IF ~has_arg0(Head(doc)) THEN Err("MissingArgument")
    ELSE IF ~is_string(arg0(Head(doc)).value) THEN Err("InvalidString")
    ELSE IF arg0(Head(doc)).value.text \notin DOMAIN table
         THEN content_loop_skipping_unknown(table, Tail(doc))
    ELSE IF ~Head(doc).has_children THEN content_loop_skipping_unknown(table, Tail(doc))
    ELSE LET source == arg0(Head(doc)).value.text
             content_val == children_loop(table[source], Head(doc).children,
                                          Head(doc).children)
         IN  IF content_val.kind = "Panic" THEN Panic
             ELSE content_loop_skipping_unknown(
                    [table EXCEPT ![source] = content_val.value], Tail(doc))

\* skeleton.rs lines 62-106: the loop over the top-level content nodes
RECURSIVE content_loop(_, _)
content_loop(table, doc) ==
    IF doc = <<>> THEN Ok(table)
    ELSE IF Head(doc).name # "content" THEN content_loop(table, Tail(doc))
    ELSE IF ~has_arg0(Head(doc)) THEN Err("MissingArgument")
    ELSE IF ~is_string(arg0(Head(doc)).value) THEN Err("InvalidString")
    ELSE IF arg0(Head(doc)).value.text \notin DOMAIN table THEN Err("MissingSource")
    ELSE IF ~Head(doc).has_children THEN content_loop(table, Tail(doc))
    ELSE LET source == arg0(Head(doc)).value.text
             content_val == children_loop(table[source], Head(doc).children,
                                          Head(doc).children)
         IN  IF content_val.kind = "Panic" THEN Panic
             ELSE content_loop([table EXCEPT ![source] = content_val.value], Tail(doc))

\* SkeletonConfig::read_from(path), the file at path being file and
\* fs_helpers::read_tree of the content root returning tree
SkeletonConfig_read_from(path, file, tree) ==
    LET read == read_document(file)
    IN  IF read.kind = "Err" THEN read
        ELSE
        LET document == read.value.document
            tasks == tasks_loop(<<>>, document)
        IN  IF tasks.kind = "Err" THEN tasks
            ELSE IF tree.kind = "Err" THEN tree
            ELSE
            LET table == content_loop(scanned_content(<<>>, tree.value), document)
            IN  IF table.kind # "Ok" THEN table
                ELSE
                LET variables == variables_from_kdl_document(document)
                IN  IF variables.kind = "Err" THEN variables
                    ELSE Ok([ root       |-> join(parent(path), "content"),
                              content    |-> table.value,
                              tasks      |-> tasks.value,
                              variables  |-> variables.value,
                              is_default |-> read.value.is_default ])

----------------------------------------------------------------------------
(* Skeleton::from_config_file: the merge of the two layers *)

\* Context::extend(source): the bindings of source replace those of the same name
extend(context, source) == source @@ context

\* a merge in which the shared layer's bindings win
merged_variables_shared_wins(shared, project) ==
    extend(extend(<<>>, project.variables), shared.variables)

\* skeleton.rs lines 28-30
merged_variables(shared, project) ==
    extend(extend(<<>>, shared.variables), project.variables)

\* for (key, value) in source { tasks.insert(key, value) }
insert_all(tasks, source) == source @@ tasks

\* a merge that appends the project task's steps to the shared task's
merged_tasks_step_level(shared, project) ==
    [n \in DOMAIN shared.tasks \cup DOMAIN project.tasks |->
        IF n \in DOMAIN shared.tasks /\ n \in DOMAIN project.tasks
        THEN [name |-> n, steps |-> shared.tasks[n].steps \o project.tasks[n].steps]
        ELSE IF n \in DOMAIN project.tasks THEN project.tasks[n]
        ELSE shared.tasks[n]]

\* skeleton.rs lines 32-38
merged_tasks(shared, project) ==
    insert_all(insert_all(<<>>, shared.tasks), project.tasks)

\* a merge that leaves the content table at its default
merged_content_default(shared, project) == <<>>

\* skeleton.rs lines 40-46
merged_content(shared, project) == shared.content

\* a merge that takes its two paths from the shared layer
Skeleton_merge_shared_paths(project, shared) ==
    [ project   |-> parent(shared.root),
      skeleton  |-> shared.root,
      content   |-> merged_content(shared, project),
      variables |-> merged_variables(shared, project),
      tasks     |-> merged_tasks(shared, project) ]

\* skeleton.rs lines 28-46: the Skeleton built from the two loaded layers
Skeleton_merge(project, shared) ==
    [ project   |-> project.root,
      skeleton  |-> project.skeleton,
      content   |-> merged_content(shared, project),
      variables |-> merged_variables(shared, project),
      tasks     |-> merged_tasks(shared, project) ]

----------------------------------------------------------------------------
(* The documents and filesystems the loaders are run on *)

\* the number of top-level nodes of a document of specification SpecLoad
MaxNodes == 2

\* the number of top-level nodes of a document of specification SpecMerge
MaxMergeNodes == 2

\* task bodies
MakeBody == << Leaf("exec", <<Arg(String("make")), Arg(String("all"))>>) >>
CcBody ==
    << Leaf("env", <<Prop("CC", String("cc")), Prop("jobs", Base10("2"))>>),
       Leaf("exec", <<Arg(String("cc")), Prop("v", Bool("true")), Arg(Base10("1"))>>),
       Leaf("task", <<Arg(String("test"))>>) >>
TestBody == << Leaf("exec", <<Arg(String("check"))>>), Leaf("other", <<>>) >>
BadBody == << Leaf("exec", <<Arg(Base10("1"))>>) >>

\* variables blocks
RedVariables ==
    Block("variables", <<>>,
          << Leaf("color", <<Arg(String("red"))>>), Leaf("size", <<Arg(Base10("1"))>>) >>)
BlueVariables ==
    Block("variables", <<>>,
          << Leaf("color", <<Arg(String("blue"))>>),
             Leaf("shape", <<Arg(String("round"))>>) >>)
ValuelessVariables == Block("variables", <<>>, << Leaf("color", <<>>) >>)

\* content nodes
ContentDestination ==
    Block("content", <<Arg(String("a"))>>, << Leaf("destination", <<Arg(String("x"))>>) >>)
ContentDependsOn ==
    Block("content", <<Arg(String("a"))>>,
          << Leaf("depends_on", <<Arg(String("b")), Prop("on", String("c")),
                                   Arg(String("zz"))>>) >>)
ContentOther ==
    Block("content", <<Arg(String("b"))>>,
          << Leaf("not_destination", <<Arg(String("two"))>>),
             Leaf("depends_on", <<Arg(String("a"))>>) >>)
ContentUnknownSource == Leaf("content", <<Arg(String("zz"))>>)
ContentDependsTwice ==
    Block("content", <<Arg(String("b"))>>,
          << Leaf("depends_on", <<Arg(String("a"))>>),
             Leaf("destination", <<Arg(String("x"))>>),
             Leaf("depends_on", <<Prop("on", String("c")), Arg(String("b"))>>) >>)
ContentUnknownChild ==
    Block("content", <<Arg(String("a"))>>, << Leaf("not_destination", <<Arg(String("two"))>>) >>)

\* the top-level nodes of the per-project documents of SpecLoad
ProjectNodes ==
    { Leaf("root", <<Arg(String("r"))>>),
      Leaf("root", <<>>),
      Leaf("root", <<Arg(Base10("1"))>>),
      Leaf("skeleton", <<Arg(String("s"))>>),
      Leaf("skeleton", <<Arg(Bool("true"))>>),
      Leaf("skeleton", <<Prop("path", String("s"))>>),
      RedVariables,
      ValuelessVariables,
      Leaf("variables", <<>>),
      Block("task", <<Arg(String("build"))>>, MakeBody),
      Leaf("task", <<Arg(String("build"))>>),
      Leaf("task", <<>>),
      Block("task", <<Arg(Base10("1"))>>, MakeBody),
      Block("task", <<Arg(String("bad"))>>, BadBody),
      ContentDestination }

\* the top-level nodes of the shared documents of SpecLoad
SkeletonNodes ==
    { BlueVariables,
      ValuelessVariables,
      Block("task", <<Arg(String("build"))>>, CcBody),
      Leaf("task", <<>>),
      Block("task", <<Arg(Null)>>, MakeBody),
      Leaf("root", <<>>),
      ContentDestination,
      ContentDependsOn,
      ContentOther,
      ContentUnknownSource,
      ContentDependsTwice,
      ContentUnknownChild,
      Leaf("content", <<>>),
      Leaf("content", <<Arg(Bool("false"))>>),
      Block("content", <<Arg(String("a"))>>, << Leaf("destination", <<Arg(Base10("1"))>>) >>),
      Block("content", <<Arg(String("a"))>>, << Leaf("destination", <<>>) >>),
      Block("content", <<Arg(String("a"))>>, << Leaf("depends_on", <<Arg(Base10("1"))>>) >>) }

\* the top-level nodes of the per-project documents of SpecMerge
MergeProjectNodes ==
    { Leaf("root", <<Arg(String("r"))>>),
      Leaf("skeleton", <<Arg(String("s"))>>),
      RedVariables,
      Block("task", <<Arg(String("build"))>>, MakeBody),
      Leaf("task", <<Arg(String("build"))>>),
      ContentDestination }

\* the top-level nodes of the shared documents of SpecMerge
MergeSkeletonNodes ==
    { BlueVariables,
      Block("task", <<Arg(String("build"))>>, CcBody),
      Block("task", <<Arg(String("test"))>>, TestBody),
      Leaf("task", <<Arg(String("test"))>>),
      ContentDependsOn }

\* the documents of at most n top-level nodes drawn from Nodes
Documents(Nodes, n) == UNION { [1..m -> Nodes] : m \in 0..n }

\* a configuration file of at most n nodes, or none, or one that cannot be
\* read or parsed
Files(Nodes, n) ==
    { NotFound, IoError, Unparsable } \cup { Document(d) : d \in Documents(Nodes, n) }

\* what read_tree returns: the sorted sources under the content root (none
\* when the directory is missing), or an error
Trees ==
    { Ok(<<>>),
      Ok(<< <<"a">>, <<"b">>, <<"home", "dot_bashrc">> >>),
      Err("IoError") }

\* the paths of per-project configuration files
ConfigFiles == { <<"proj", ".skeleton.kdl">>, <<"work", ".skeleton.kdl">> }

\* the resolver is not run by the loader specifications
ResolverIdle ==
    /\ content = <<>>
    /\ pc = "idle"
    /\ keys = <<>>
    /\ dependents = <<>>
    /\ dependencies = <<>>
    /\ remaining = <<>>
    /\ scan = <<>>
    /\ count = 0
    /\ result = <<>>
    /\ calls = 0
    /\ first_result = <<>>
    /\ passes = <<>>

\* from_config_file is not run by the specifications of single functions
LoaderIdle ==
    /\ config_file = <<>>
    /\ project_file = NotFound
    /\ skeleton_file = NotFound
    /\ content_tree = Ok(<<>>)
    /\ project_config = NoResult
    /\ skeleton_config = NoResult
    /\ skeleton = NoResult
    /\ lpc = "idle"

\* no function is called on its own by the loader and resolver specifications
UnitIdle ==
    /\ unit = "none"
    /\ input = <<>>
    /\ output = [kind |-> "None"]

\* from_config_file is about to run on a filesystem in which one layer has a
\* configuration file of SpecLoad and the other layer has none
InitLoad ==
    /\ ResolverIdle
    /\ UnitIdle
    /\ config_file \in ConfigFiles
    /\ \/ /\ project_file \in Files(ProjectNodes, MaxNodes)
          /\ skeleton_file = NotFound
          /\ content_tree = Ok(<<>>)
       \/ /\ project_file = NotFound
          /\ skeleton_file \in Files(SkeletonNodes, MaxNodes)
          /\ content_tree \in Trees
    /\ project_config = NoResult
    /\ skeleton_config = NoResult
    /\ skeleton = NoResult
    /\ lpc = "project"

\* from_config_file is about to run on a filesystem with both layers
InitMerge ==
    /\ ResolverIdle
    /\ UnitIdle
    /\ config_file = <<"proj", ".skeleton.kdl">>
    /\ project_file \in Files(MergeProjectNodes, MaxMergeNodes)
    /\ skeleton_file \in Files(MergeSkeletonNodes, MaxMergeNodes)
    /\ content_tree \in { Ok(<<>>), Ok(<< <<"a">>, <<"b">> >>) }
    /\ project_config = NoResult
    /\ skeleton_config = NoResult
    /\ skeleton = NoResult
    /\ lpc = "project"

\* skeleton.rs line 25: the per-project layer is loaded; an error is returned
LoadProject ==
    /\ lpc = "project"
    /\ project_config' = ProjectConfig_read_from(config_file, project_file)
    /\ IF project_config'.kind = "Ok"
       THEN /\ lpc' = "shared"
            /\ UNCHANGED skeleton
       ELSE /\ lpc' = "returned"
            /\ skeleton' = project_config'
    /\ UNCHANGED <<config_file, project_file, skeleton_file, content_tree,
                   skeleton_config>>
    /\ UNCHANGED <<resolver_vars, unit_vars>>

\* skeleton.rs line 26: the shared layer is loaded from
\* <project skeleton>/skeleton.kdl; an error is returned, a panic aborts
LoadSkeleton ==
    /\ lpc = "shared"
    /\ skeleton_config' =
          SkeletonConfig_read_from(join(project_config.value.skeleton, "skeleton.kdl"),
                                   skeleton_file, content_tree)
    /\ IF skeleton_config'.kind = "Ok"
       THEN /\ lpc' = "merge"
            /\ UNCHANGED skeleton
       ELSE IF skeleton_config'.kind = "Err"
       THEN /\ lpc' = "returned"
            /\ skeleton' = skeleton_config'
       ELSE /\ lpc' = "aborted"
            /\ UNCHANGED skeleton
    /\ UNCHANGED <<config_file, project_file, skeleton_file, content_tree,
                   project_config>>
    /\ UNCHANGED <<resolver_vars, unit_vars>>

\* skeleton.rs lines 28-46: the two layers are merged and returned
Merge ==
    /\ lpc = "merge"
    /\ skeleton' = Ok(Skeleton_merge(project_config.value, skeleton_config.value))
    /\ lpc' = "returned"
    /\ UNCHANGED <<config_file, project_file, skeleton_file, content_tree,
                   project_config, skeleton_config>>
    /\ UNCHANGED <<resolver_vars, unit_vars>>

NextLoad ==
    \/ LoadProject
    \/ LoadSkeleton
    \/ Merge

\* single-layer loads over the full range of nodes
SpecLoad == InitLoad /\ [][NextLoad]_vars

\* merges of two loaded layers
SpecMerge == InitMerge /\ [][NextLoad]_vars

----------------------------------------------------------------------------
(* Task::from_kdl_document called on its own on a task body *)

\* the number of nodes of a task body that is written node by node
MaxSteps == 2

\* the number of entries of such a task body, over all its nodes
MaxEntries == 3

\* the names a node of a task body is written with
TaskNodeNames == { "env", "exec", "task", "other" }

\* the entries a node of a task body is written with
TaskEntries ==
    { Arg(String("ssh")), Arg(String("")), Arg(Base10("1")), Prop("v", Bool("true")) }

\* the body of: task "deploy" { env region="us"; exec "ssh" "host"; task "cleanup" }
DeployBody ==
    << Leaf("env", <<Prop("region", String("us"))>>),
       Leaf("exec", <<Arg(String("ssh")), Arg(String("host"))>>),
       Leaf("task", <<Arg(String("cleanup"))>>) >>

\* the number of entries of a document, over all its nodes
RECURSIVE EntryCount(_)
EntryCount(doc) ==
    IF doc = <<>> THEN 0 ELSE Len(Head(doc).entries) + EntryCount(Tail(doc))

\* a task body is about to be written, or is the deploy body
InitTask ==
    /\ ResolverIdle
    /\ LoaderIdle
    /\ unit = "task"
    /\ input \in { <<>>, DeployBody }
    /\ output = NoResult

\* the document gains a node
WriteNode ==
    /\ unit = "task"
    /\ output = NoResult
    /\ Len(input) < MaxSteps
    /\ \E n \in TaskNodeNames : input' = Append(input, Leaf(n, <<>>))
    /\ UNCHANGED <<unit, output>>
    /\ UNCHANGED <<resolver_vars, loader_vars>>

\* the last node of the document gains an entry
WriteEntry ==
    /\ unit = "task"
    /\ output = NoResult
    /\ input # <<>>
    /\ EntryCount(input) < MaxEntries
    /\ \E e \in TaskEntries :
          input' = [input EXCEPT ![Len(input)].entries = Append(@, e)]
    /\ UNCHANGED <<unit, output>>
    /\ UNCHANGED <<resolver_vars, loader_vars>>

\* Task::from_kdl_document(doc, "deploy")
ParseTask ==
    /\ unit = "task"
    /\ output = NoResult
    /\ output' = Task_from_kdl_document(input, "deploy")
    /\ UNCHANGED <<unit, input>>
    /\ UNCHANGED <<resolver_vars, loader_vars>>

NextTask ==
    \/ WriteNode
    \/ WriteEntry
    \/ ParseTask

SpecTask == InitTask /\ [][NextTask]_vars

----------------------------------------------------------------------------
(* Content::from_source called on its own.  Here a string is the sequence of
   its characters and a path the sequence of its segments, so that prefixes,
   whitespace and case are what they are in the code. *)

\* Option
None    == [some |-> FALSE]
Some(v) == [some |-> TRUE, value |-> v]

\* content.rs lines 17-18
STR_FILE     == <<"f", "i", "l", "e">>
STR_TEMPLATE == <<"t", "e", "m", "p", "l", "a", "t", "e">>

\* str::starts_with(prefix)
starts_with(s, prefix) ==
    Len(s) >= Len(prefix) /\ SubSeq(s, 1, Len(prefix)) = prefix

\* str::strip_prefix(prefix).unwrap(), for a string that starts with prefix
strip_prefix(s, prefix) == SubSeq(s, Len(prefix) + 1, Len(s))

\* char::is_whitespace, for the characters of the model
is_whitespace(c) == c \in {" ", "\t", "\n"}

\* str::trim_start and str::trim_end
RECURSIVE trim_start(_)
trim_start(s) ==
    IF s # <<>> /\ is_whitespace(Head(s)) THEN trim_start(Tail(s)) ELSE s
RECURSIVE trim_end(_)
trim_end(s) ==
    IF s # <<>> /\ is_whitespace(s[Len(s)])
    THEN trim_end(SubSeq(s, 1, Len(s) - 1))
    ELSE s

\* a trim of the leading whitespace alone
trim_start_only(s) == trim_start(s)

\* str::trim
trim(s) == trim_end(trim_start(s))

\* char::to_lowercase, for the characters of the model
lowercase(c) ==
    CASE c = "A" -> "a" [] c = "D" -> "d" [] c = "E" -> "e" [] c = "F" -> "f"
      [] c = "I" -> "i" [] c = "L" -> "l" [] c = "M" -> "m" [] c = "P" -> "p"
      [] c = "R" -> "r" [] c = "T" -> "t"
      [] OTHER -> c

\* str::to_lowercase
to_lowercase(s) == [i \in 1..Len(s) |-> lowercase(s[i])]

\* ContentKind::from_str_opt (content.rs lines 21-30); an invalid kind panics
ContentKind_from_str_opt(kind) ==
    IF ~kind.some THEN Ok("File")
    ELSE IF to_lowercase(trim(kind.value)) = STR_FILE THEN Ok("File")
    ELSE IF to_lowercase(trim(kind.value)) = STR_TEMPLATE THEN Ok("Template")
    ELSE Panic

\* a destination in which every segment loses its dot_ prefix
destination_rewriting_all(path) ==
    [i \in 1..Len(path) |->
        IF starts_with(path[i], <<"d", "o", "t", "_">>)
        THEN <<".">> \o strip_prefix(path[i], <<"d", "o", "t", "_">>)
        ELSE path[i]]

\* content.rs lines 36-42: the destination of a source path
destination_of(path) ==
    IF starts_with(file_name(path), <<"d", "o", "t", "_">>)
    THEN Append(parent(path),
                <<".">> \o strip_prefix(file_name(path), <<"d", "o", "t", "_">>))
    ELSE Append(parent(path), file_name(path))

\* Content::from_source(path, kind)
Content_from_source(path, kind) ==
    IF ContentKind_from_str_opt(kind).kind = "Panic" THEN Panic
    ELSE Ok([ source       |-> path,
              destination  |-> destination_of(path),
              kind         |-> ContentKind_from_str_opt(kind).value,
              dependencies |-> <<>> ])

\* the number of segments of a source path
MaxSegments == 2

\* the number of chunks a source path is written with, over all its segments
MaxChunks == 3

\* the number of chunks a kind string is written with
MaxKindChunks == 3

\* the chunks a segment of a source path is written with
NameChunks ==
    { <<"d", "o", "t", "_">>, <<"d", "o", "t">>, <<"_">>,
      <<"b", "a", "s", "h", "r", "c">>, <<"h", "o", "m", "e">> }

\* the chunks a kind string is written with
KindChunks ==
    { <<>>, <<" ">>, <<"\t", "\n">>, <<"f", "i", "l", "e">>, <<"F", "i", "L", "E">>,
      <<"t", "e", "m", "p", "l", "a", "t", "e">>,
      <<"T", "E", "M", "P", "l", "a", "t", "E">>, <<"d", "i", "r">> }

\* the number of chunks written so far, of the path or of the kind
written == input.chunks

\* a source path and a kind are about to be written
InitContent ==
    /\ ResolverIdle
    /\ LoaderIdle
    /\ unit = "content"
    /\ input = [path |-> <<>>, kind |-> None, chunks |-> 0]
    /\ output = NoResult

\* the path gains a segment
WriteSegment ==
    /\ unit = "content"
    /\ output = NoResult
    /\ ~input.kind.some
    /\ Len(input.path) < MaxSegments
    /\ written < MaxChunks
    /\ \E c \in NameChunks :
          input' = [input EXCEPT !.path = Append(@, c), !.chunks = @ + 1]
    /\ UNCHANGED <<unit, output>>
    /\ UNCHANGED <<resolver_vars, loader_vars>>

\* the last segment of the path grows
WriteName ==
    /\ unit = "content"
    /\ output = NoResult
    /\ ~input.kind.some
    /\ input.path # <<>>
    /\ written < MaxChunks
    /\ \E c \in NameChunks :
          input' = [input EXCEPT !.path[Len(input.path)] = @ \o c, !.chunks = @ + 1]
    /\ UNCHANGED <<unit, output>>
    /\ UNCHANGED <<resolver_vars, loader_vars>>

\* a kind string is given for a path of one chunk, or grows
WriteKind ==
    /\ unit = "content"
    /\ output = NoResult
    /\ input.path # <<>>
    /\ IF input.kind.some
       THEN written < MaxKindChunks
       ELSE written = 1
    /\ \E c \in KindChunks :
          input' = [input EXCEPT
                      !.kind = IF input.kind.some THEN Some(input.kind.value \o c)
                               ELSE Some(c),
                      !.chunks = IF input.kind.some THEN @ + 1 ELSE 1]
    /\ UNCHANGED <<unit, output>>
    /\ UNCHANGED <<resolver_vars, loader_vars>>

\* Content::from_source(path, kind)
FromSource ==
    /\ unit = "content"
    /\ output = NoResult
    /\ input.path # <<>>
    /\ output' = Content_from_source(input.path, input.kind)
    /\ UNCHANGED <<unit, input>>
    /\ UNCHANGED <<resolver_vars, loader_vars>>

NextContent ==
    \/ WriteSegment
    \/ WriteName
    \/ WriteKind
    \/ FromSource

SpecContent == InitContent /\ [][NextContent]_vars

----------------------------------------------------------------------------
(* fs_helpers::read_tree called on its own.  A filesystem is a function from
   the paths that exist to what is found there: "file" (a regular file),
   "dir" (a directory that can be listed), "locked" (a directory whose
   listing fails), "other" (neither a file nor a directory), "error" (an
   entry that cannot be read while its directory is listed) and, for the
   root alone, "missing". *)

\* the number of entries of the filesystem below the content root
MaxFiles == 3

\* the content root
RootDir == <<".skeleton", "content">>

\* the names an entry is created with
TreeNames == { "a", "d", ".h", "node_modules" }

\* what a created entry is
TreeKinds == { "file", "dir", "locked", "other", "error" }

\* file_name.starts_with('.'), for the names of the model
starts_with_dot(name) == name \in { ".h", ".skeleton" }

\* a test that skips hidden entries alone
is_skipped_hidden_only(name) == starts_with_dot(name)

\* fs_helpers.rs lines 45-46: hidden entries and node_modules are skipped
is_skipped(name) == starts_with_dot(name) \/ name = "node_modules"

\* Path::strip_prefix(root).unwrap()
Path_strip_prefix(path, root) == SubSeq(path, Len(root) + 1, Len(path))

\* the entries fs::read_dir(dir) iterates over
read_dir(fs, dir) ==
    { p \in DOMAIN fs : Len(p) = Len(dir) + 1 /\ SubSeq(p, 1, Len(dir)) = dir }

\* read_tree(dir, root); read_entries is its loop over the entries that are
\* left, in the order the directory hands them out (the final sort makes the
\* result independent of that order)
RECURSIVE read_tree(_, _, _), read_entries(_, _, _, _)
read_entries(fs, entries, root, listed) ==
    IF entries = {} THEN Ok(listed)
    ELSE LET path == CHOOSE p \in entries : TRUE
             rest == entries \ {path}
         IN  IF fs[path] = "error" THEN Err("IoError")
             ELSE IF is_skipped(file_name(path))
                  THEN read_entries(fs, rest, root, listed)
             ELSE IF fs[path] \in {"dir", "locked"}
                  THEN LET child_contents == read_tree(fs, path, root)
                       IN  IF child_contents.kind = "Err" THEN child_contents
                           ELSE read_entries(fs, rest, root,
                                             listed \o child_contents.value)
             ELSE IF fs[path] = "file"
                  THEN read_entries(fs, rest, root,
                                    Append(listed, Path_strip_prefix(path, root)))
             ELSE read_entries(fs, rest, root, listed)

read_tree(fs, dir, root) ==
    IF fs[dir] # "dir" THEN Ok(<<>>)
    ELSE LET listed == read_entries(fs, read_dir(fs, dir), root, <<>>)
         IN  IF listed.kind = "Err" THEN listed
             ELSE Ok(sort_by(listed.value))

\* a filesystem that holds the content root alone, or not even that
InitTree ==
    /\ ResolverIdle
    /\ LoaderIdle
    /\ unit = "tree"
    /\ input \in { (RootDir :> k) : k \in {"dir", "locked", "missing"} }
    /\ output = NoResult

\* an entry is created in a directory at most two levels below the root
Create ==
    /\ unit = "tree"
    /\ output = NoResult
    /\ Cardinality(DOMAIN input) <= MaxFiles
    /\ \E d \in DOMAIN input, n \in TreeNames, k \in TreeKinds :
          /\ input[d] \in {"dir", "locked"}
          /\ Len(d) <= Len(RootDir) + 2
          /\ Append(d, n) \notin DOMAIN input
          /\ input' = (Append(d, n) :> k) @@ input
    /\ UNCHANGED <<unit, output>>
    /\ UNCHANGED <<resolver_vars, loader_vars>>

\* read_tree(&root, &root)
ReadTree ==
    /\ unit = "tree"
    /\ output = NoResult
    /\ output' = read_tree(input, RootDir, RootDir)
    /\ UNCHANGED <<unit, input>>
    /\ UNCHANGED <<resolver_vars, loader_vars>>

NextTree ==
    \/ Create
    \/ ReadTree

SpecTree == InitTree /\ [][NextTree]_vars

----------------------------------------------------------------------------
(* SkeletonConfig::calculate, one step per loop iteration *)

Range(seq) == { seq[i] : i \in 1..Len(seq) }

\* the elements of seq other than key, in order
RECURSIVE filter_ne(_, _)
filter_ne(seq, key) ==
    IF seq = <<>> THEN <<>>
    ELSE IF Head(seq) = key THEN filter_ne(Tail(seq), key)
         ELSE <<Head(seq)>> \o filter_ne(Tail(seq), key)

\* a retain that drops every element (Vec::clear)
retain_none(seq, key) == <<>>

\* Vec::retain(|name| *name != key)
retain_ne(seq, key) == filter_ne(seq, key)

\* an edge loop that records no reverse edge
push_dependents_none(dpts, key, deps) == dpts

\* for dep in &content.dependencies { dependents.get_mut(dep).unwrap().push(key) }
\* (every dep is a key here: the caller has checked that unwrap succeeds)
RECURSIVE push_dependents(_, _, _)
push_dependents(dpts, key, deps) ==
    IF deps = <<>> THEN dpts
    ELSE push_dependents([dpts EXCEPT ![Head(deps)] = Append(@, key)], key, Tail(deps))

\* the reverse edges after the loop over keys[i..]
RECURSIVE build_dependents(_, _)
build_dependents(dpts, ks) ==
    IF ks = <<>> THEN dpts
    ELSE build_dependents(push_dependents(dpts, Head(ks), content[Head(ks)].dependencies),
                          Tail(ks))

\* a lookup of the reverse edges that finds every dependency
unwrap_never_fails == FALSE

\* dependents.get_mut(dep) is None for some dependency of some entry
unwrap_fails ==
    \E k \in DOMAIN content : \E i \in 1..Len(content[k].dependencies) :
        content[k].dependencies[i] \notin DOMAIN content

\* the loop over the dependents of an emitted key
RECURSIVE retain_in_dependents(_, _, _)
retain_in_dependents(deps, dependent_list, key) ==
    IF dependent_list = <<>> THEN deps
    ELSE retain_in_dependents(
            [deps EXCEPT ![Head(dependent_list)] = retain_ne(@, key)],
            Tail(dependent_list), key)

\* an emission that leaves the outstanding lists of the dependents alone
keep_dependencies(deps, dependent_list, key) == deps

\* for dependent in dependents.get(&key) { dependencies[dependent].retain(!= key) }
remove_from_dependents(deps, dependent_list, key) ==
    retain_in_dependents(deps, dependent_list, key)

\* a readiness test that lets every visited key through
is_ready_always(key) == TRUE

\* deps.is_empty()
is_ready(key) == dependencies[key] = <<>>

\* the number of dependency entries of the table
RECURSIVE SumLen(_, _)
SumLen(table, S) ==
    IF S = {} THEN 0
    ELSE LET k == CHOOSE x \in S : TRUE
         IN  Len(table[k].dependencies) + SumLen(table, S \ {k})

Init ==
    /\ content \in ScannedTables
    /\ pc = "load"
    /\ keys = <<>>
    /\ dependents = <<>>
    /\ dependencies = <<>>
    /\ remaining = <<>>
    /\ scan = <<>>
    /\ count = 0
    /\ result = <<>>
    /\ calls = 1
    /\ first_result = <<>>
    /\ passes = <<>>
    /\ config_file = <<>>
    /\ project_file = NotFound
    /\ skeleton_file = NotFound
    /\ content_tree = Ok(<<>>)
    /\ project_config = NoResult
    /\ skeleton_config = NoResult
    /\ skeleton = NoResult
    /\ lpc = "idle"
    /\ UnitIdle

\* SkeletonConfig::read_from, lines 93-100: a positional entry of a depends_on
\* child of the content node naming key k is pushed on k's dependencies
DependsOn ==
    /\ pc = "load"
    /\ SumLen(content, DOMAIN content) < MaxDeps
    /\ \E k \in DOMAIN content, d \in KeyUniverse :
         content' = [content EXCEPT ![k].dependencies = Append(@, d)]
    /\ UNCHANGED <<pc, keys, dependents, dependencies, remaining, scan, count,
                   result, calls, first_result, passes>>
    /\ UNCHANGED <<loader_vars, unit_vars>>

\* lines 122-142: calculate is called on the loaded table; it collects the
\* keys in the table's iteration order and sorts them
SortKeys ==
    /\ pc \in {"load", "start"}
    /\ \E iteration_order \in Orders(DOMAIN content) :
         keys' = sorted_keys(iteration_order)
    /\ pc' = "edges"
    /\ UNCHANGED <<content, dependents, dependencies, remaining, scan, count,
                   result, calls, first_result, passes>>
    /\ UNCHANGED <<loader_vars, unit_vars>>

\* lines 144-160: the outstanding lists and the reverse edges; an unknown
\* dependency makes unwrap panic
BuildEdges ==
    /\ pc = "edges"
    /\ IF unwrap_fails
       THEN /\ pc' = "panic_unwrap"
            /\ UNCHANGED <<dependents, dependencies, remaining>>
       ELSE /\ dependencies' = [k \in Range(keys) |-> content[k].dependencies]
            /\ dependents' = build_dependents([k \in Range(keys) |-> <<>>], keys)
            /\ remaining' = keys
            /\ pc' = "while"
    /\ UNCHANGED <<content, keys, scan, count, result, calls, first_result, passes>>
    /\ UNCHANGED <<loader_vars, unit_vars>>

\* lines 161-163: the while condition holds; a pass over remaining.clone() starts
BeginPass ==
    /\ pc = "while"
    /\ remaining # <<>>
    /\ count' = 0
    /\ scan' = remaining
    /\ passes' = Append(passes, <<>>)
    /\ pc' = "for"
    /\ UNCHANGED <<content, keys, dependents, dependencies, remaining, result,
                   calls, first_result>>
    /\ UNCHANGED <<loader_vars, unit_vars>>

\* lines 163-184: one iteration of the for loop
Visit ==
    /\ pc = "for"
    /\ scan # <<>>
    /\ LET key == Head(scan)
       IN  /\ scan' = Tail(scan)
           /\ IF is_ready(key)
              THEN /\ count' = count + 1
                   /\ result' = Append(result, content[key])
                   /\ remaining' = retain_ne(remaining, key)
                   /\ dependencies' =
                        remove_from_dependents(dependencies, dependents[key], key)
                   /\ passes' = [passes EXCEPT ![Len(passes)] = Append(@, key)]
              ELSE UNCHANGED <<count, result, remaining, dependencies, passes>>
    /\ UNCHANGED <<content, pc, keys, dependents, calls, first_result>>
    /\ UNCHANGED <<loader_vars, unit_vars>>

\* an end of pass that goes on to the next pass whatever the count is
EndPass_never_failing ==
    /\ pc = "for"
    /\ scan = <<>>
    /\ pc' = "while"
    /\ UNCHANGED <<content, keys, dependents, dependencies, remaining, scan,
                   count, result, calls, first_result, passes>>
    /\ UNCHANGED <<loader_vars, unit_vars>>

\* lines 186-188: the pass is over; no emission means a dependency loop
EndPass ==
    /\ pc = "for"
    /\ scan = <<>>
    /\ pc' = IF count = 0 THEN "panic_loop" ELSE "while"
    /\ UNCHANGED <<content, keys, dependents, dependencies, remaining, scan,
                   count, result, calls, first_result, passes>>
    /\ UNCHANGED <<loader_vars, unit_vars>>

\* line 191: remaining is empty, the result is returned
Return ==
    /\ pc = "while"
    /\ remaining = <<>>
    /\ pc' = "done"
    /\ first_result' = IF calls = 1 THEN result ELSE first_result
    /\ UNCHANGED <<content, keys, dependents, dependencies, remaining, scan,
                   count, result, calls, passes>>
    /\ UNCHANGED <<loader_vars, unit_vars>>

\* calculate is called again on the same table
CallAgain ==
    /\ pc = "done"
    /\ calls = 1
    /\ calls' = 2
    /\ pc' = "start"
    /\ keys' = <<>>
    /\ dependents' = <<>>
    /\ dependencies' = <<>>
    /\ remaining' = <<>>
    /\ scan' = <<>>
    /\ count' = 0
    /\ result' = <<>>
    /\ passes' = <<>>
    /\ UNCHANGED <<content, first_result>>
    /\ UNCHANGED <<loader_vars, unit_vars>>

Next ==
    \/ DependsOn
    \/ SortKeys
    \/ BuildEdges
    \/ BeginPass
    \/ Visit
    \/ EndPass
    \/ Return
    \/ CallAgain

Spec == Init /\ [][Next]_vars

\* once calculate has sorted its keys the rest of its body runs on: it is
\* sequential code with no wait, so a step of it that can be taken is taken
CalculateBody == BuildEdges \/ BeginPass \/ Visit \/ EndPass \/ Return

SpecFair == Init /\ [][Next]_vars /\ WF_vars(CalculateBody)

----------------------------------------------------------------------------
(* Properties of SkeletonConfig::calculate (specification Spec) *)

\* the keys an entry names as dependencies
DepsOf(k) == Range(content[k].dependencies)

\* the keys of the table reachable from S along dependency edges
RECURSIVE ReachableFrom(_)
ReachableFrom(S) ==
    LET T == S \cup UNION { DepsOf(k) \cap DOMAIN content : k \in S }
    IN  IF T = S THEN S ELSE ReachableFrom(T)

\* an entry depends on itself, directly or through other entries
HasCycle ==
    \E k \in DOMAIN content : k \in ReachableFrom(DepsOf(k) \cap DOMAIN content)

\* some dependency names a key that is not in the table
HasUnknownDependency ==
    \E k \in DOMAIN content : ~(DepsOf(k) \subseteq DOMAIN content)

\* the run has ended by an abort of the process
Aborted == pc \in {"panic_unwrap", "panic_loop"}

\* the keys of a sequence of entries
Sources(seq) == [i \in 1..Len(seq) |-> to_str(seq[i].source)]

\* seq holds every entry of the table exactly once and nothing else
IsPermutationOfTable(seq) ==
    /\ Len(seq) = Cardinality(DOMAIN content)
    /\ \A k \in DOMAIN content : \E i \in 1..Len(seq) : seq[i] = content[k]
    /\ \A i \in 1..Len(seq) :
         /\ to_str(seq[i].source) \in DOMAIN content
         /\ seq[i] = content[to_str(seq[i].source)]
    /\ \A i, j \in 1..Len(seq) : seq[i].source = seq[j].source => i = j

\* C1, as stated: for any content table with no dependency cycle, calculate
\* returns a permutation of the table's entries (so it does not abort).
C1_AcyclicReturnsPermutation ==
    ~HasCycle => /\ ~Aborted
                 /\ pc = "done" => IsPermutationOfTable(result)

\* C1, amended: for any content table with no dependency cycle whose
\* dependencies all name keys of the table, calculate does not abort and what
\* it returns is a permutation of the table's entries; a table with a
\* dependency that names no key makes it abort instead of returning.
C1_AcyclicKnownReturnsPermutation ==
    /\ (~HasCycle /\ ~HasUnknownDependency) =>
            /\ ~Aborted
            /\ pc = "done" => IsPermutationOfTable(result)
    /\ HasUnknownDependency => pc # "done"
    /\ pc = "done" => IsPermutationOfTable(result)

\* a run on an acyclic table of three entries with dependencies has returned
C1_Witness ==
    /\ pc = "done"
    /\ ~HasCycle
    /\ Cardinality(DOMAIN content) = 3
    /\ \E k \in DOMAIN content : Cardinality(DepsOf(k)) = 2

\* the table of the test allows_declaring_dependencies: a on b and c, b on c
ScenarioTable ==
    [k \in {"a", "b", "c"} |->
        [from_source(PathBuf_from(k)) EXCEPT !.dependencies =
            CASE k = "a" -> <<"b", "c">>
              [] k = "b" -> <<"c">>
              [] OTHER -> <<>>]]

\* C2: whenever calculate returns a sequence, every key an entry of it lists
\* as a dependency appears at a strictly earlier position; a on [b, c], b on
\* [c] and c on nothing yields c, b, a.
C2_DependenciesEarlier ==
    pc = "done" =>
        /\ \A i \in 1..Len(result) : \A d \in Range(result[i].dependencies) :
               \E j \in 1..(i - 1) : to_str(result[j].source) = d
        /\ content = ScenarioTable => Sources(result) = <<"c", "b", "a">>

\* the scenario table has been resolved
C2_Witness == pc = "done" /\ content = ScenarioTable

\* C3, as stated: a table with a self-dependency or a dependency cycle never
\* makes calculate return, and the run ends in the cycle failure.
C3_CycleEndsInLoopPanic ==
    HasCycle => /\ pc # "done"
                /\ pc # "panic_unwrap"

\* C3, amended: a table with a self-dependency or a dependency cycle never
\* makes calculate return a sequence; the run ends in the cycle failure when
\* every dependency names a key of the table, and in the abort of the
\* reverse-edge construction when one does not.
C3_CycleNeverReturns ==
    /\ HasCycle => pc # "done"
    /\ (HasCycle /\ ~HasUnknownDependency) => pc # "panic_unwrap"
    /\ (HasCycle /\ HasUnknownDependency) => pc # "panic_loop"
    /\ pc = "panic_loop" => HasCycle

\* a run on a table with a cycle of two entries has ended in the cycle failure
C3_Witness ==
    /\ pc = "panic_loop"
    /\ \E k \in DOMAIN content : k \notin DepsOf(k) /\ k \in ReachableFrom(DepsOf(k))
    /\ result # <<>>

\* the order the specification asks of the base ordering: parent directory
\* first, file name second, each under the collation
CollatedBefore(a, b) ==
    LET pa == PathBuf_from(a)
        pb == PathBuf_from(b)
    IN  \/ CollationRank(parent_str(pa)) < CollationRank(parent_str(pb))
        \/ /\ CollationRank(parent_str(pa)) = CollationRank(parent_str(pb))
           /\ CollationRank(file_name(pa)) < CollationRank(file_name(pb))

----------------------------------------------------------------------------
(* Properties of the layer merge (specification SpecMerge) *)

\* from_config_file has returned a Merged Result
Merged == lpc = "returned" /\ skeleton.kind = "Ok"

\* C5: the merged variable bindings are the shared layer's overlaid with the
\* per-project layer's: the names are the union of both layers' names, a name
\* of the per-project layer carries its value there, and a name of the shared
\* layer alone carries the shared value.
C5_VariablesOverlay ==
    Merged =>
        LET pv == project_config.value.variables
            sv == skeleton_config.value.variables
            mv == skeleton.value.variables
        IN  /\ DOMAIN mv = DOMAIN sv \cup DOMAIN pv
            /\ \A n \in DOMAIN pv : mv[n] = pv[n]
            /\ \A n \in DOMAIN sv \ DOMAIN pv : mv[n] = sv[n]

\* a merge in which color is bound in both layers to different values, size in
\* the per-project layer alone and shape in the shared layer alone
C5_Witness ==
    /\ Merged
    /\ DOMAIN project_config.value.variables = {"color", "size"}
    /\ DOMAIN skeleton_config.value.variables = {"color", "shape"}
    /\ project_config.value.variables["color"] # skeleton_config.value.variables["color"]
    /\ skeleton.value.variables["color"].text = "red"

\* C6: a task name defined in both layers maps to the per-project layer's
\* task in full (its steps are exactly the project task's steps); a name
\* defined in one layer alone keeps that layer's definition.
C6_TasksReplaced ==
    Merged =>
        LET pt == project_config.value.tasks
            st == skeleton_config.value.tasks
            mt == skeleton.value.tasks
        IN  /\ DOMAIN mt = DOMAIN st \cup DOMAIN pt
            /\ \A n \in DOMAIN pt : mt[n] = pt[n] /\ mt[n].steps = pt[n].steps
            /\ \A n \in DOMAIN st \ DOMAIN pt : mt[n] = st[n]

\* a merge in which both layers define build with different steps and the
\* shared layer alone defines test
C6_Witness ==
    /\ Merged
    /\ "build" \in DOMAIN project_config.value.tasks
    /\ DOMAIN skeleton_config.value.tasks = {"build", "test"}
    /\ project_config.value.tasks["build"].steps # skeleton_config.value.tasks["build"].steps
    /\ Len(skeleton.value.tasks["build"].steps) = 1

\* the per-project document declares a content node
ProjectDeclaresContent ==
    /\ project_file.kind = "Document"
    /\ has_node(project_file.document, "content")

\* C7: the merged content table is the shared layer's content table unchanged,
\* and it is the table that the shared layer's own file and content directory
\* yield: no content node of the per-project layer contributes to it.
C7_ContentFromSharedLayer ==
    Merged =>
        /\ skeleton.value.content = skeleton_config.value.content
        /\ skeleton.value.content =
             SkeletonConfig_read_from(<<"skeleton.kdl">>, skeleton_file,
                                      content_tree).value.content
        /\ (ProjectDeclaresContent /\ "a" \in DOMAIN skeleton.value.content) =>
             skeleton.value.content["a"].destination = <<"a">>

\* a merge in which the per-project document overrides the destination of a
\* and the shared layer holds a with dependencies
C7_Witness ==
    /\ Merged
    /\ ProjectDeclaresContent
    /\ "a" \in DOMAIN skeleton.value.content
    /\ skeleton.value.content["a"].dependencies # <<>>

----------------------------------------------------------------------------
(* Properties of the layer loaders (specification SpecLoad) *)

\* the keys of the scanned content table
ScannedKeys ==
    IF content_tree.kind = "Ok"
    THEN { to_str(content_tree.value[i]) : i \in 1..Len(content_tree.value) }
    ELSE {}

\* the table of the scanned entries at their defaults
ScannedDefaults == [k \in ScannedKeys |-> from_source(PathBuf_from(k))]

\* the path the shared layer is loaded from
SkeletonPath == join(project_config.value.skeleton, "skeleton.kdl")

\* the per-project layer is the default layer
ProjectIsDefault ==
    /\ project_config.kind = "Ok"
    /\ project_config.value.is_default
    /\ project_config.value.variables = <<>>
    /\ project_config.value.tasks = <<>>
    /\ project_config.value.root = parent(config_file)
    /\ project_config.value.skeleton = join(parent(config_file), ".skeleton")

\* the shared layer is the default layer but for its content
SharedIsDefault ==
    /\ skeleton_config.kind = "Ok"
    /\ skeleton_config.value.is_default
    /\ skeleton_config.value.variables = <<>>
    /\ skeleton_config.value.tasks = <<>>
    /\ skeleton_config.value.root = join(parent(SkeletonPath), "content")

\* C8, as stated: loading a layer whose configuration file does not exist
\* yields a layer flagged as default with empty content, variables and tasks
\* and paths from the path defaults.
C8_MissingFileGivesEmptyLayer ==
    /\ (project_file.kind = "NotFound" /\ project_config.kind # "None") => ProjectIsDefault
    /\ (skeleton_file.kind = "NotFound" /\ skeleton_config.kind # "None") =>
          /\ SharedIsDefault
          /\ skeleton_config.value.content = <<>>

\* C8, amended: loading a layer whose configuration file does not exist
\* yields a layer flagged as default with empty variables, empty tasks and
\* paths from the path defaults; the shared layer's content is one default
\* entry per file of the content directory (empty only when the directory
\* holds none), and a failing scan of that directory fails the load.
C8_MissingFileGivesDefaultLayer ==
    /\ (project_file.kind = "NotFound" /\ project_config.kind # "None") => ProjectIsDefault
    /\ (skeleton_file.kind = "NotFound" /\ skeleton_config.kind # "None") =>
          IF content_tree.kind = "Ok"
          THEN /\ SharedIsDefault
               /\ skeleton_config.value.content = ScannedDefaults
          ELSE skeleton_config = Err("IoError")

\* both layers were loaded without configuration files, the shared one over a
\* content directory that holds files
C8_Witness ==
    /\ project_file.kind = "NotFound"
    /\ skeleton_file.kind = "NotFound"
    /\ project_config.kind = "Ok"
    /\ skeleton_config.kind = "Ok"
    /\ skeleton_config.value.content # <<>>

\* C9: every failure met while loading a layer is surfaced as an error value;
\* loading a layer never aborts the process.
C9_LoadNeverAborts ==
    /\ lpc # "aborted"
    /\ project_config.kind # "Panic"
    /\ skeleton_config.kind # "Panic"

\* the i-th node of the shared document is a content node whose source is a
\* string that is no key of the scanned table
UnknownSourceAt(i) ==
    LET node == skeleton_file.document[i]
    IN  /\ node.name = "content"
        /\ has_arg0(node)
        /\ is_string(arg0(node).value)
        /\ arg0(node).value.text \notin ScannedKeys

\* the shared document holds a content node with an unknown source
HasUnknownSource ==
    /\ skeleton_file.kind = "Document"
    /\ content_tree.kind = "Ok"
    /\ \E i \in 1..Len(skeleton_file.document) : UnknownSourceAt(i)

\* nothing fails the load before the first content node with an unknown
\* source: the task nodes load and the content nodes before it apply
UnknownSourceFailsFirst ==
    /\ HasUnknownSource
    /\ tasks_loop(<<>>, skeleton_file.document).kind = "Ok"
    /\ LET first == CHOOSE i \in 1..Len(skeleton_file.document) :
                       /\ UnknownSourceAt(i)
                       /\ \A j \in 1..(i - 1) : ~UnknownSourceAt(j)
       IN  content_loop(ScannedDefaults,
                        SubSeq(skeleton_file.document, 1, first - 1)).kind = "Ok"

\* C10, as stated: a content node whose source string is no key of the
\* scanned table makes the shared load fail with MissingSource.
C10_UnknownSourceIsMissingSource ==
    (HasUnknownSource /\ skeleton_config.kind # "None") =>
        skeleton_config = Err("MissingSource")

\* C10, amended: a content node whose source string is no key of the scanned
\* table never lets the shared load return a layer; the load fails with
\* MissingSource unless an earlier step of the load fails first (a task node
\* or an earlier content node).
C10_UnknownSourceNeverLoads ==
    /\ (HasUnknownSource /\ skeleton_config.kind # "None") =>
          skeleton_config.kind # "Ok"
    /\ (UnknownSourceFailsFirst /\ skeleton_config.kind # "None") =>
          skeleton_config = Err("MissingSource")

\* a shared load over a scanned directory has failed with MissingSource on
\* the second node of its document
C10_Witness ==
    /\ HasUnknownSource
    /\ ScannedKeys # {}
    /\ Len(skeleton_file.document) = 2
    /\ ~UnknownSourceAt(1)
    /\ skeleton_config = Err("MissingSource")

----------------------------------------------------------------------------
(* Properties of Task::from_kdl_document (specification SpecTask) *)

\* Task::from_kdl_document has returned a Task
TaskParsed == unit = "task" /\ output.kind = "Ok"

\* a node of a task body that is named env, exec or task
IsStepNode(node) == node.name \in {"env", "exec", "task"}

\* the step variant a node name stands for
StepOf(name) ==
    CASE name = "env" -> "Env"
      [] name = "exec" -> "Exec"
      [] name = "task" -> "Task"

\* C11: a parsed task body yields exactly one step per node named env, exec
\* or task, in document order and of the variant of the node's name; nodes of
\* any other name yield no step; the deploy body parses to SetEnv({region:
\* us}), Exec(ssh, [host]), InvokeTask(cleanup, []) although no task named
\* cleanup exists.
C11_OneStepPerNode ==
    /\ TaskParsed =>
          LET nodes == SelectSeq(input, IsStepNode)
              steps == output.value.steps
          IN  /\ output.value.name = "deploy"
              /\ Len(steps) = Len(nodes)
              /\ \A i \in 1..Len(nodes) : steps[i].step = StepOf(nodes[i].name)
    /\ (unit = "task" /\ input = DeployBody /\ output # NoResult) =>
          output = Ok([name |-> "deploy",
                       steps |-> << Env([region |-> "us"]),
                                    Exec("ssh", <<"host">>),
                                    InvokeTask("cleanup", <<>>) >>])

\* a body of a node of another name followed by a task node has been parsed
\* to the single step InvokeTask(ssh, []), ssh being no task of any table
C11_Witness ==
    /\ TaskParsed
    /\ Len(input) = 2
    /\ input[1].name = "other"
    /\ input[2].name = "task"
    /\ output.value.steps = << InvokeTask("ssh", <<>>) >>

\* the i-th node of the task body is an exec or task node
IsCommandNode(i) == input[i].name \in {"exec", "task"}

\* the step that the i-th node of the task body gave rise to
StepAt(i) == output.value.steps[Len(SelectSeq(SubSeq(input, 1, i), IsStepNode))]

\* the textual forms of the positional entries after the first
RestAsStrings(node) ==
    [j \in 1..(Len(arguments(node.entries)) - 1) |->
        kdl_entry_to_string(arguments(node.entries)[j + 1])]

\* every exec and task node that has a positional entry has a string first
AllCommandsAreStrings ==
    \A i \in 1..Len(input) :
        (IsCommandNode(i) /\ has_arg0(input[i])) => is_string(arg0(input[i]).value)

\* C12: for an exec or task node the first positional entry, whatever string
\* it is, is the command (task name) of the step and the positional entries
\* after it, in order, are the arguments in textual form; named entries are
\* ignored (so a body whose commands are all strings parses).
C12_FirstPositionalIsCommand ==
    /\ TaskParsed =>
          \A i \in 1..Len(input) :
              (IsCommandNode(i) /\ has_arg0(input[i])) =>
                  /\ StepAt(i).command = arg0(input[i]).value.text
                  /\ StepAt(i).args = RestAsStrings(input[i])
    /\ (unit = "task" /\ output # NoResult /\ AllCommandsAreStrings) =>
          output.kind = "Ok"

\* C13: an exec or task node without a first positional string entry (no
\* positional entry, or a first positional entry that is no string) makes
\* Task::from_kdl_document return an error, and no returned step has an empty
\* command.
C13_MissingCommandIsError ==
    /\ (unit = "task" /\ output # NoResult) =>
          ((\E i \in 1..Len(input) :
               /\ IsCommandNode(i)
               /\ ~(has_arg0(input[i]) /\ is_string(arg0(input[i]).value)))
           => output.kind = "Err")
    /\ TaskParsed =>
          \A k \in 1..Len(output.value.steps) :
              output.value.steps[k].step \in {"Exec", "Task"} =>
                  output.value.steps[k].command # ""

----------------------------------------------------------------------------
(* Properties of the task and variables nodes of a layer (specification
   SpecLoad) *)

\* the per-project layer was loaded from a document
ProjectLoaded == project_file.kind = "Document" /\ project_config.kind # "None"

\* the shared layer was loaded from a document
SharedLoaded == skeleton_file.kind = "Document" /\ skeleton_config.kind # "None"

\* a top-level task node without a name, and one whose name is no string
IsUnnamedTask(node) == node.name = "task" /\ ~has_arg0(node)
IsMisnamedTask(node) ==
    node.name = "task" /\ has_arg0(node) /\ ~is_string(arg0(node).value)

\* the error of the first task node of doc that has no string name, when no
\* task node before it fails; "none" when there is no such node or an earlier
\* task node fails
FirstTaskNameError(doc) ==
    LET bad == { i \in 1..Len(doc) : IsUnnamedTask(doc[i]) \/ IsMisnamedTask(doc[i]) }
    IN  IF bad = {} THEN "none"
        ELSE LET first == CHOOSE i \in bad : \A j \in bad : i <= j
             IN  IF tasks_loop(<<>>, SubSeq(doc, 1, first - 1)).kind # "Ok" THEN "none"
                 ELSE IF IsUnnamedTask(doc[first]) THEN "MissingArgument"
                 ELSE "InvalidString"

\* the per-project load gets as far as its task nodes: the root, skeleton and
\* variables nodes of the document load
ProjectReachesTasks ==
    /\ first_string_arg(project_file.document, "root", "").kind = "Ok"
    /\ first_string_arg(project_file.document, "skeleton", "").kind = "Ok"
    /\ variables_from_kdl_document(project_file.document).kind = "Ok"

\* C14, as stated: in either layer a top-level task node without a name makes
\* the load fail with MissingArgument and one with a name that is no string
\* makes it fail with InvalidString.
C14_TaskNameErrorKind ==
    /\ ProjectLoaded =>
          \A i \in 1..Len(project_file.document) :
              /\ IsUnnamedTask(project_file.document[i]) =>
                    project_config = Err("MissingArgument")
              /\ IsMisnamedTask(project_file.document[i]) =>
                    project_config = Err("InvalidString")
    /\ SharedLoaded =>
          \A i \in 1..Len(skeleton_file.document) :
              /\ IsUnnamedTask(skeleton_file.document[i]) =>
                    skeleton_config = Err("MissingArgument")
              /\ IsMisnamedTask(skeleton_file.document[i]) =>
                    skeleton_config = Err("InvalidString")

\* C14, amended: in either layer a top-level task node without a string name
\* makes the load fail with an error, so that no layer is returned; the error
\* is MissingArgument for a missing name and InvalidString for a name that is
\* no string when that node is the first failure of the load (no root,
\* skeleton, variables or earlier task node fails before it).
C14_TaskNameFailsLoad ==
    /\ ProjectLoaded =>
          /\ (\E i \in 1..Len(project_file.document) :
                 \/ IsUnnamedTask(project_file.document[i])
                 \/ IsMisnamedTask(project_file.document[i]))
             => project_config.kind = "Err"
          /\ (ProjectReachesTasks /\ FirstTaskNameError(project_file.document) # "none")
             => project_config = Err(FirstTaskNameError(project_file.document))
    /\ SharedLoaded =>
          /\ (\E i \in 1..Len(skeleton_file.document) :
                 \/ IsUnnamedTask(skeleton_file.document[i])
                 \/ IsMisnamedTask(skeleton_file.document[i]))
             => skeleton_config.kind = "Err"
          /\ FirstTaskNameError(skeleton_file.document) # "none"
             => skeleton_config = Err(FirstTaskNameError(skeleton_file.document))

\* the shared load has failed with InvalidString on a task node named null
\* that follows a task node that loads
C14_Witness ==
    /\ SharedLoaded
    /\ Len(skeleton_file.document) = 2
    /\ skeleton_file.document[1].name = "task"
    /\ ~IsUnnamedTask(skeleton_file.document[1])
    /\ IsMisnamedTask(skeleton_file.document[2])
    /\ skeleton_config = Err("InvalidString")

\* the children of the document's variables node (of the first node of that
\* name); none when the document has no such node or the node has no block
VariableChildren(doc) ==
    IF has_node(doc, "variables") /\ get_node(doc, "variables").has_children
    THEN get_node(doc, "variables").children
    ELSE <<>>

\* some child of the variables node has no positional entry
HasValuelessVariable(doc) ==
    \E i \in 1..Len(VariableChildren(doc)) : ~has_arg0(VariableChildren(doc)[i])

\* one binding per child of the variables node: the child's name bound to the
\* value of its first positional entry (of the last child of that name)
BindingsOf(doc) ==
    LET children == VariableChildren(doc)
        last(n) == CHOOSE i \in 1..Len(children) :
                      /\ children[i].name = n
                      /\ \A j \in (i + 1)..Len(children) : children[j].name # n
    IN  [n \in { children[i].name : i \in 1..Len(children) } |->
            kdl_entry_to_tera_value(arg0(children[last(n)]))]

\* the shared load gets as far as its variables node: the task nodes load,
\* the directory scan succeeds and the content nodes apply
SharedReachesVariables ==
    /\ tasks_loop(<<>>, skeleton_file.document).kind = "Ok"
    /\ content_tree.kind = "Ok"
    /\ content_loop(ScannedDefaults, skeleton_file.document).kind = "Ok"

\* the per-project load gets as far as its variables node: the root and
\* skeleton nodes load
ProjectReachesVariables ==
    /\ first_string_arg(project_file.document, "root", "").kind = "Ok"
    /\ first_string_arg(project_file.document, "skeleton", "").kind = "Ok"

\* C15, as stated: a loaded layer binds exactly the children of the
\* document's variables node, each name to the first positional value of its
\* child (nothing when there is no variables node), and a child without a
\* positional entry makes the load fail with MissingArgument.
C15_VariablesOrMissingArgument ==
    /\ ProjectLoaded =>
          /\ HasValuelessVariable(project_file.document) =>
                project_config = Err("MissingArgument")
          /\ project_config.kind = "Ok" =>
                project_config.value.variables = BindingsOf(project_file.document)
    /\ SharedLoaded =>
          /\ HasValuelessVariable(skeleton_file.document) =>
                skeleton_config = Err("MissingArgument")
          /\ skeleton_config.kind = "Ok" =>
                skeleton_config.value.variables = BindingsOf(skeleton_file.document)

\* C15, amended: a loaded layer binds exactly the children of the document's
\* variables node, each name to the first positional value of its child
\* (nothing when there is no variables node); a child without a positional
\* entry never lets the load return a layer, and the load fails with
\* MissingArgument when nothing fails before the variables node is read.
C15_VariablesOrNoLayer ==
    /\ ProjectLoaded =>
          /\ HasValuelessVariable(project_file.document) =>
                project_config.kind = "Err"
          /\ (HasValuelessVariable(project_file.document) /\ ProjectReachesVariables) =>
                project_config = Err("MissingArgument")
          /\ project_config.kind = "Ok" =>
                project_config.value.variables = BindingsOf(project_file.document)
    /\ SharedLoaded =>
          /\ HasValuelessVariable(skeleton_file.document) =>
                skeleton_config.kind # "Ok"
          /\ (HasValuelessVariable(skeleton_file.document) /\ SharedReachesVariables) =>
                skeleton_config = Err("MissingArgument")
          /\ skeleton_config.kind = "Ok" =>
                skeleton_config.value.variables = BindingsOf(skeleton_file.document)

\* the shared load has failed with MissingArgument on a valueless variable
\* after a content node that applies to a scanned file
C15_Witness ==
    /\ SharedLoaded
    /\ HasValuelessVariable(skeleton_file.document)
    /\ has_node(skeleton_file.document, "content")
    /\ ScannedKeys # {}
    /\ skeleton_config = Err("MissingArgument")
    /\ SharedReachesVariables

----------------------------------------------------------------------------
(* Properties of Content::from_source (specification SpecContent) *)

\* Content::from_source has returned a Content Entry
ContentMade == unit = "content" /\ output.kind = "Ok"

\* the strings of the scenario
Home       == <<"h", "o", "m", "e">>
Bashrc     == <<"b", "a", "s", "h", "r", "c">>
DotBashrc  == <<"d", "o", "t", "_", "b", "a", "s", "h", "r", "c">>
HiddenBashrc == <<".", "b", "a", "s", "h", "r", "c">>

\* C16: the default destination is the source path with only its last
\* segment transformed: a last segment starting with dot_ has that prefix
\* replaced by one '.', any other last segment is unchanged, and no parent
\* segment is rewritten (home/dot_bashrc -> home/.bashrc, home/bashrc ->
\* home/bashrc).
C16_OnlyLastSegmentRewritten ==
    ContentMade =>
        LET src  == output.value.source
            dst  == output.value.destination
            last == src[Len(src)]
        IN  /\ src = input.path
            /\ Len(dst) = Len(src)
            /\ \A i \in 1..(Len(src) - 1) : dst[i] = src[i]
            /\ IF Len(last) >= 4 /\ last[1] = "d" /\ last[2] = "o"
                  /\ last[3] = "t" /\ last[4] = "_"
               THEN /\ Len(dst[Len(dst)]) = Len(last) - 3
                    /\ dst[Len(dst)][1] = "."
                    /\ \A j \in 5..Len(last) : dst[Len(dst)][j - 3] = last[j]
               ELSE dst[Len(dst)] = last
            /\ src = <<Home, DotBashrc>> => dst = <<Home, HiddenBashrc>>
            /\ src = <<Home, Bashrc>> => dst = <<Home, Bashrc>>

\* an entry was made for a source whose parent and file name both start with
\* dot_, the file name twice
C16_Witness ==
    /\ ContentMade
    /\ Len(input.path) = 2
    /\ input.path[1] = <<"d", "o", "t", "_">>
    /\ input.path[2] = <<"d", "o", "t", "_", "d", "o", "t", "_">>
    /\ output.value.destination[2] = <<".", "d", "o", "t", "_">>

\* the kind string is word between whitespace, in any case of its letters
IsKindWord(s, word) ==
    \E i \in 1..(Len(s) + 1) :
        /\ i + Len(word) - 1 <= Len(s)
        /\ \A j \in 1..(i - 1) : s[j] \in {" ", "\t", "\n"}
        /\ \A j \in (i + Len(word))..Len(s) : s[j] \in {" ", "\t", "\n"}
        /\ \A j \in 1..Len(word) : lowercase(s[i + j - 1]) = word[j]

\* C17: the kind string, trimmed of surrounding whitespace and in any case,
\* maps file to File and template to Template; an absent kind maps to File;
\* any other string gives the invalid-input outcome (the call aborts) and no
\* Content Entry.
C17_KindMapping ==
    (unit = "content" /\ output # NoResult) =>
        IF ~input.kind.some THEN ContentMade /\ output.value.kind = "File"
        ELSE IF IsKindWord(input.kind.value, <<"f", "i", "l", "e">>)
             THEN ContentMade /\ output.value.kind = "File"
        ELSE IF IsKindWord(input.kind.value, <<"t", "e", "m", "p", "l", "a", "t", "e">>)
             THEN ContentMade /\ output.value.kind = "Template"
        ELSE output = Panic

\* an entry of kind Template was made from a kind string with whitespace on
\* both sides and upper-case letters
C17_Witness ==
    /\ ContentMade
    /\ input.kind.some
    /\ Len(input.kind.value) > 8
    /\ is_whitespace(input.kind.value[1])
    /\ is_whitespace(input.kind.value[Len(input.kind.value)])
    /\ \E j \in 1..Len(input.kind.value) : input.kind.value[j] = "T"
    /\ output.value.kind = "Template"

----------------------------------------------------------------------------
(* Properties of read_tree (specification SpecTree) *)

\* read_tree has returned a list of paths
TreeRead == unit = "tree" /\ output.kind = "Ok"

\* the paths of the returned list
Listed == { output.value[i] : i \in 1..Len(output.value) }

\* no component of a root-relative path begins with '.' or is node_modules
IsClean(rel) ==
    \A i \in 1..Len(rel) : rel[i] \notin { ".h", ".skeleton", "node_modules" }

\* the regular files below the root whose root-relative path is clean
CleanFiles ==
    { Path_strip_prefix(p, RootDir) :
        p \in { q \in DOMAIN input : /\ input[q] = "file"
                                     /\ IsClean(Path_strip_prefix(q, RootDir)) } }

\* every directory from the root down to the parent of p can be listed
IsListable(p) ==
    \A n \in Len(RootDir)..(Len(p) - 1) : input[SubSeq(p, 1, n)] = "dir"

\* the clean regular files that sit in directories that can be listed
ListableCleanFiles ==
    { Path_strip_prefix(p, RootDir) :
        p \in { q \in DOMAIN input : /\ input[q] = "file"
                                     /\ IsClean(Path_strip_prefix(q, RootDir))
                                     /\ IsListable(q) } }

\* each path is listed once
ListedOnce ==
    \A i, j \in 1..Len(output.value) : output.value[i] = output.value[j] => i = j

\* C18, as stated: the scan returns exactly the regular files under the
\* content root whose root-relative path has no component beginning with '.'
\* and none named node_modules, each once and root-relative.
C18_ScanListsCleanFiles ==
    TreeRead => (Listed = CleanFiles /\ ListedOnce)

\* C18, amended: the scan returns, each once and root-relative, exactly the
\* regular files with such a path that sit in directories that can be
\* listed; a directory whose listing fails (the root included) counts as
\* empty, and no listed path has an excluded component.
C18_ScanListsListableCleanFiles ==
    TreeRead =>
        /\ Listed = ListableCleanFiles
        /\ ListedOnce
        /\ \A rel \in Listed : IsClean(rel)

\* a scan has listed a and left out the regular file a of the directory
\* node_modules
C18_Witness ==
    /\ TreeRead
    /\ Listed = { <<"a">> }
    /\ RootDir \o <<"node_modules", "a">> \in DOMAIN input
    /\ input[RootDir \o <<"node_modules", "a">>] = "file"

----------------------------------------------------------------------------
(* Properties of the passes of calculate (specification Spec) *)

\* the keys of the table in base collated order
BaseOrder ==
    [i \in 1..Cardinality(DOMAIN content) |->
        CHOOSE k \in DOMAIN content :
            Cardinality({ x \in DOMAIN content : CollatedBefore(x, k) }) = i - 1]

\* the concatenation of a sequence of sequences
RECURSIVE Flatten(_)
Flatten(seqs) == IF seqs = <<>> THEN <<>> ELSE Head(seqs) \o Flatten(Tail(seqs))

\* the elements of seq that are not in S, in order
Without(seq, S) == SelectSeq(seq, LAMBDA x : x \notin S)

\* what one scan of the keys ks emits when the keys of done were emitted
\* before it: a key is emitted when all its dependencies have been emitted by
\* the time it is visited
RECURSIVE ScanPass(_, _)
ScanPass(ks, done) ==
    IF ks = <<>> THEN <<>>
    ELSE IF DepsOf(Head(ks)) \subseteq done
         THEN <<Head(ks)>> \o ScanPass(Tail(ks), done \cup {Head(ks)})
         ELSE ScanPass(Tail(ks), done)

\* the keys emitted before pass p
EmittedBefore(p) == Range(Flatten(SubSeq(passes, 1, p - 1)))

\* the keys remaining at the start of pass p, in the order base
RemainingAt(base, p) == Without(base, EmittedBefore(p))

\* the keys pass p has visited so far
VisitedBy(base, p) ==
    LET start == RemainingAt(base, p)
    IN  IF p = Len(passes) /\ pc = "for"
        THEN SubSeq(start, 1, Len(start) - Len(scan))
        ELSE start

\* C19: the returned sequence is the concatenation of the scan passes; each
\* pass visits the keys remaining at its start in base collated order and
\* emits a key exactly when its outstanding dependencies are empty at the
\* moment it is visited, so the keys of one pass are in base collated order
\* and a key made ready earlier in a pass is emitted in that pass if it comes
\* later in base order.
C19_ResultIsConcatenationOfPasses ==
    pc \in {"while", "for", "done", "panic_loop"} =>
        LET base == BaseOrder
        IN  /\ Sources(result) = Flatten(passes)
            /\ \A p \in 1..Len(passes) :
                  /\ passes[p] = ScanPass(VisitedBy(base, p), EmittedBefore(p))
                  /\ \A i, j \in 1..Len(passes[p]) :
                        i < j => CollatedBefore(passes[p][i], passes[p][j])
            /\ pc = "for" =>
                  LET start == RemainingAt(base, Len(passes))
                  IN  scan = SubSeq(start, Len(start) - Len(scan) + 1, Len(start))

\* a run of two passes has returned, and in one pass a key was emitted after
\* a dependency of it emitted in the same pass
C19_Witness ==
    /\ pc = "done"
    /\ Len(passes) = 2
    /\ \E p \in 1..Len(passes) : \E i, j \in 1..Len(passes[p]) :
          i < j /\ passes[p][i] \in DepsOf(passes[p][j])

\* the keys not in done whose dependencies are all in done, in the order base
ReadyKeys(base, done) ==
    SelectSeq(base, LAMBDA k : k \notin done /\ DepsOf(k) \subseteq done)

\* Kahn's algorithm with a first-in first-out queue: the head of the queue is
\* emitted and the keys it makes ready join the queue in base order
RECURSIVE KahnQueue(_, _, _)
KahnQueue(base, queue, emitted) ==
    IF queue = <<>> THEN emitted
    ELSE LET next == Append(emitted, Head(queue))
         IN  KahnQueue(base,
                       Tail(queue) \o Without(ReadyKeys(base, Range(next)), Range(queue)),
                       next)

\* the first-in first-out Kahn's algorithm seeded with the dependency-free
\* keys in base collated order
KahnFifo == LET base == BaseOrder IN KahnQueue(base, ReadyKeys(base, {}), <<>>)

\* Kahn's algorithm in which the next key is the first ready key after the
\* key emitted last in base order, or the first ready key when there is none
RECURSIVE KahnRoundRobin(_, _, _)
KahnRoundRobin(base, emitted, after) ==
    LET ready == ReadyKeys(base, Range(emitted))
        later == SelectSeq(ready, LAMBDA k : k \notin Range(after))
        next  == IF later # <<>> THEN Head(later) ELSE Head(ready)
    IN  IF ready = <<>> THEN emitted
        ELSE KahnRoundRobin(base, Append(emitted, next),
                            SubSeq(base, 1, CHOOSE i \in 1..Len(base) : base[i] = next))

\* seq holds the keys of the table once each, dependencies first
IsTopologicalOrder(seq) ==
    /\ Range(seq) = DOMAIN content
    /\ Len(seq) = Cardinality(DOMAIN content)
    /\ \A i \in 1..Len(seq) : \A d \in DepsOf(seq[i]) :
          \E j \in 1..(i - 1) : seq[j] = d

\* C20, as stated: for every acyclic table calculate returns the sequence of
\* the first-in first-out Kahn's algorithm whose queue is seeded with the
\* dependency-free keys in base order and to which newly ready keys are
\* appended in base order.
C20_EqualsKahnQueue ==
    pc = "done" => Sources(result) = KahnFifo

\* C20, amended: for every acyclic table calculate returns the sequence of
\* the Kahn's algorithm that emits next the first ready key after the key it
\* emitted last in base order (the first ready key when none follows); the
\* first-in first-out queue yields a topological order of the same keys that
\* may differ from it.
C20_EqualsKahnRoundRobin ==
    pc = "done" =>
        /\ Sources(result) = KahnRoundRobin(BaseOrder, <<>>, <<>>)
        /\ IsTopologicalOrder(Sources(result))
        /\ IsTopologicalOrder(KahnFifo)

\* a run has returned a, b, c for a table in which b depends on a and a and c
\* on nothing, for which the first-in first-out queue yields a, c, b
C20_Witness ==
    /\ pc = "done"
    /\ Sources(result) = <<"a", "b", "c">>
    /\ KahnFifo = <<"a", "c", "b">>

----------------------------------------------------------------------------
(* Properties of the ends of calculate (specification Spec) *)

\* C21: when a dependency list names a key that is not in the table, calculate
\* aborts while it builds the reverse edges, before any entry is emitted, and
\* never returns a sequence, also when the rest of the table has no cycle.
C21_UnknownDependencyAborts ==
    /\ (HasUnknownDependency /\ pc \notin {"load", "start"}) =>
            /\ pc \in {"edges", "panic_unwrap"}
            /\ result = <<>>
            /\ passes = <<>>
    /\ pc = "panic_unwrap" => HasUnknownDependency

\* a run on a table of two entries without a cycle, one of which depends on
\* the other and on a key that is not in the table, has aborted
C21_Witness ==
    /\ pc = "panic_unwrap"
    /\ ~HasCycle
    /\ Cardinality(DOMAIN content) = 2
    /\ \E k \in DOMAIN content :
          /\ DepsOf(k) \cap DOMAIN content # {}
          /\ ~(DepsOf(k) \subseteq DOMAIN content)

\* the call of calculate has ended: it has returned or aborted
Ended == pc \in {"done", "panic_unwrap", "panic_loop"}

\* the keys not yet emitted are the keys of remaining, once each
RemainingIsTheRest ==
    pc \in {"while", "for", "done", "panic_loop"} =>
        /\ Range(remaining) = DOMAIN content \ Range(Flatten(passes))
        /\ Len(remaining) = Cardinality(DOMAIN content) - Len(Flatten(passes))

\* a completed pass after which the run goes on has emitted a key
CompletedPassEmitted ==
    (pc = "while" /\ passes # <<>>) => passes[Len(passes)] # <<>>

\* C22: calculate terminates on every table whose dependencies all name keys
\* of the table: every completed pass either takes at least one key out of
\* remaining or ends the run with the cycle failure, so remaining shrinks
\* from pass to pass until it is empty and the call ends.
C22_Terminates ==
    /\ [](RemainingIsTheRest /\ CompletedPassEmitted)
    /\ [][EndPass => (pc' = "panic_loop" \/ passes[Len(passes)] # <<>>)]_vars
    /\ (pc = "edges" /\ ~HasUnknownDependency) ~> (pc \in {"done", "panic_loop"})

\* a call on a table of three entries has returned after three passes
C22_Witness ==
    /\ pc = "done"
    /\ Len(passes) = 3
    /\ Cardinality(DOMAIN content) = 3

----------------------------------------------------------------------------
(* Properties of the content nodes of the shared layer (specification
   SpecLoad) *)

\* the shared layer was loaded from a document and the load returned a layer
SharedLayerLoaded == SharedLoaded /\ skeleton_config.kind = "Ok"

\* the content nodes of the shared document that name the entry k
NodesNaming(k) ==
    SelectSeq(skeleton_file.document,
              LAMBDA node : /\ node.name = "content"
                            /\ has_arg0(node)
                            /\ is_string(arg0(node).value)
                            /\ arg0(node).value.text = k)

\* the children of a node that are named n
ChildrenNamed(node, n) == SelectSeq(node.children, LAMBDA child : child.name = n)

\* the values of the positional string arguments of a node, in order
PositionalStrings(node) ==
    LET positional == SelectSeq(node.entries,
                                LAMBDA e : ~e.named /\ is_string(e.value))
    IN  [i \in 1..Len(positional) |-> positional[i].value.text]

\* the positional string arguments of the depends_on children of a node
DeclaredByNode(node) ==
    LET children == ChildrenNamed(node, "depends_on")
    IN  Flatten([i \in 1..Len(children) |-> PositionalStrings(children[i])])

\* the positional string arguments of every depends_on child of every content
\* node naming k, in document order
DeclaredDependencies(k) ==
    LET nodes == NodesNaming(k)
    IN  Flatten([i \in 1..Len(nodes) |-> DeclaredByNode(nodes[i])])

\* the content table of the loaded shared layer
LoadedContent == skeleton_config.value.content

\* C23: after a successful shared-layer load an entry's dependency list is the
\* concatenation, in document order, of the positional string arguments of
\* every depends_on child of every content node naming the entry; named
\* arguments add nothing, and the named keys are not checked for existence:
\* a load fails with MissingSource only for a content node with an unknown
\* source.
C23_DependenciesAsDeclared ==
    /\ SharedLayerLoaded =>
          /\ DOMAIN LoadedContent = ScannedKeys
          /\ \A k \in DOMAIN LoadedContent :
                LoadedContent[k].dependencies = DeclaredDependencies(k)
    /\ (SharedLoaded /\ skeleton_config = Err("MissingSource")) => HasUnknownSource

\* a load has succeeded in which the entry a got its dependencies from two
\* content nodes, a named argument was left out, and zz, which is no key of
\* the table, is one of the dependencies
C23_Witness ==
    /\ SharedLayerLoaded
    /\ "a" \in DOMAIN LoadedContent
    /\ LoadedContent["a"].dependencies = <<"b", "zz", "b", "zz">>
    /\ "zz" \notin DOMAIN LoadedContent

\* the content nodes naming k that have a destination child
NodesRedirecting(k) ==
    SelectSeq(NodesNaming(k), LAMBDA node : ChildrenNamed(node, "destination") # <<>>)

\* the destination the document declares for k: the first destination child
\* of the last content node naming k that has one
DeclaredDestination(k) ==
    LET nodes == NodesRedirecting(k)
        child == Head(ChildrenNamed(nodes[Len(nodes)], "destination"))
    IN  PathBuf_from(arg0(child).value.text)

\* no content node naming k has a destination or a depends_on child
OnlyUnknownChildren(k) ==
    \A i \in 1..Len(NodesNaming(k)) :
        /\ ChildrenNamed(NodesNaming(k)[i], "destination") = <<>>
        /\ ChildrenNamed(NodesNaming(k)[i], "depends_on") = <<>>

\* C24: applying a content node changes only the entry it names: a destination
\* child replaces the entry's destination and leaves its source, kind and
\* dependencies as they are, a child of any other unknown name leaves the
\* entry at its scanned default, and every entry no content node names stays
\* as the directory scan produced it.
C24_ContentNodeFrame ==
    SharedLayerLoaded =>
        \A k \in ScannedKeys :
            /\ k \in DOMAIN LoadedContent
            /\ LoadedContent[k].source = ScannedDefaults[k].source
            /\ LoadedContent[k].kind = ScannedDefaults[k].kind
            /\ OnlyUnknownChildren(k) => LoadedContent[k] = ScannedDefaults[k]
            /\ NodesRedirecting(k) = <<>> =>
                  LoadedContent[k].destination = ScannedDefaults[k].destination
            /\ NodesRedirecting(k) # <<>> =>
                  LoadedContent[k] =
                      [ScannedDefaults[k] EXCEPT
                          !.destination = DeclaredDestination(k),
                          !.dependencies = DeclaredDependencies(k)]

\* a load has succeeded in which a content node gave the entry b a new
\* destination between two depends_on children, a content node with a child
\* of an unknown name named the entry a, and no node named the third entry
C24_Witness ==
    /\ SharedLayerLoaded
    /\ skeleton_file.document = <<ContentDependsTwice, ContentUnknownChild>>
    /\ ScannedKeys = {"a", "b", "home/dot_bashrc"}
    /\ LoadedContent["b"].destination = <<"x">>
    /\ LoadedContent["b"].dependencies = <<"a", "b">>
    /\ LoadedContent["a"] = ScannedDefaults["a"]
    /\ LoadedContent["home/dot_bashrc"] = ScannedDefaults["home/dot_bashrc"]

----------------------------------------------------------------------------
(* Properties of the order of Skeleton::from_config_file (specification
   SpecMerge) *)

\* from_config_file has ended: it has returned or the process has aborted
LoadEnded == lpc \in {"returned", "aborted"}

\* C25: from_config_file loads the per-project layer first and only then the
\* shared layer, from <project skeleton path>/skeleton.kdl; when the
\* per-project load fails the shared layer is never loaded; a Merged Result
\* is produced if and only if both loads succeed, the merge adding no error
\* of its own; the result's project root is the per-project layer's root and
\* its shared-layer path the per-project layer's skeleton.
C25_ProjectThenShared ==
    /\ lpc = "project" => (project_config.kind = "None" /\ skeleton_config.kind = "None")
    /\ skeleton_config.kind # "None" => project_config.kind = "Ok"
    /\ project_config.kind = "Err" =>
          /\ skeleton_config.kind = "None"
          /\ lpc = "returned"
          /\ skeleton = project_config
    /\ skeleton_config.kind = "Ok" =>
          skeleton_config.value.root = join(project_config.value.skeleton, "content")
    /\ skeleton.kind = "Ok" => lpc = "returned"
    /\ LoadEnded =>
          /\ skeleton.kind = "Ok" <=>
                (project_config.kind = "Ok" /\ skeleton_config.kind = "Ok")
          /\ skeleton.kind = "Err" =>
                (skeleton = project_config \/ skeleton = skeleton_config)
    /\ skeleton.kind = "Ok" =>
          /\ skeleton.value.project = project_config.value.root
          /\ skeleton.value.skeleton = project_config.value.skeleton

\* two layers have been merged, the per-project one declaring the root r and
\* the skeleton path s
C25_Witness ==
    /\ lpc = "returned"
    /\ skeleton.kind = "Ok"
    /\ project_file.kind = "Document"
    /\ skeleton_file.kind = "Document"
    /\ skeleton.value.project = <<"r">>
    /\ skeleton.value.skeleton = <<"s">>
    /\ skeleton_config.value.root = <<"s", "content">>

----------------------------------------------------------------------------
(* Properties of task nodes without a children block (specification
   SpecMerge) *)

\* the names of the task nodes of a document that have a children block
NamesWithBody(doc) ==
    { arg0(doc[i]).value.text :
        i \in { j \in 1..Len(doc) : doc[j].name = "task" /\ doc[j].has_children } }

\* the names of the task nodes of a document that have none
NamesWithoutBody(doc) ==
    { arg0(doc[i]).value.text :
        i \in { j \in 1..Len(doc) : doc[j].name = "task" /\ ~doc[j].has_children } }

\* C26: a top-level task node with a valid string name and no children block
\* adds no entry to the task table of its layer, so a per-project task node
\* without a body neither replaces nor removes the shared layer's task of
\* that name in the Merged Result.
C26_BodylessTaskAddsNothing ==
    /\ (ProjectLoaded /\ project_config.kind = "Ok") =>
          DOMAIN project_config.value.tasks = NamesWithBody(project_file.document)
    /\ (SharedLoaded /\ skeleton_config.kind = "Ok") =>
          DOMAIN skeleton_config.value.tasks = NamesWithBody(skeleton_file.document)
    /\ (Merged /\ ProjectLoaded) =>
          \A n \in DOMAIN skeleton_config.value.tasks :
              n \notin NamesWithBody(project_file.document) =>
                  /\ n \in DOMAIN skeleton.value.tasks
                  /\ skeleton.value.tasks[n] = skeleton_config.value.tasks[n]

\* two layers have been merged in which the per-project document names the
\* task build without a body and the shared layer defines it: the Merged
\* Result holds the shared layer's task
C26_Witness ==
    /\ Merged
    /\ ProjectLoaded
    /\ SharedLoaded
    /\ "build" \in NamesWithoutBody(project_file.document)
    /\ "build" \notin DOMAIN project_config.value.tasks
    /\ "build" \in DOMAIN skeleton_config.value.tasks
    /\ skeleton.value.tasks["build"] = skeleton_config.value.tasks["build"]

====
